---- MODULE Spec2Model ----
(***************************************************************************)
(* Order lifecycle of the paper-trading backend: the order management      *)
(* functions of OMS/manage_order.py acting on the two MongoDB collections  *)
(* (trade_book, trade_logs) and reading the Redis price hashes, plus the   *)
(* FIFO lot matching of RMS/pnl_summary.py.                                *)
(*                                                                         *)
(* A collection is a sequence of documents in natural (insertion) order:   *)
(* find() returns documents in that order, update_one and delete_one act   *)
(* on the first document that matches the filter.  Prices are integers in  *)
(* price units.  Redis is written by the feed, outside these functions, at *)
(* any time: every operation reads a snapshot that may be any assignment   *)
(* of hashes to instruments.  The wall clock is read when a document is    *)
(* stamped; since the previous stamp it has either advanced or not         *)
(* (utcnow().isoformat() has finite resolution).                           *)
(***************************************************************************)
EXTENDS Integers, Sequences, FiniteSets, TLC

VARIABLES
    trade_book,   \* trade_book_collection, in natural order
    trade_logs,   \* trade_logs_collection, in natural order
    now,          \* the value datetime.utcnow() returned at the last stamp
    loss_alerts,  \* the lines of loss_alerts.json, in the order they were appended
    tasks,        \* where each task stands in the call or cycle it is running
    last          \* the last operation that wrote to the store, and its outcome

vars == <<trade_book, trade_logs, now, loss_alerts, tasks, last>>

-----------------------------------------------------------------------------
(* Bounds of the model *)

MaxPrice == 3       \* feed prices are 1..MaxPrice
MaxOrders == 2      \* no place-order or square-off request on a longer trade-log

(* Python's None, and an absent document key *)
NONE == -1

Instruments == {"X", "Y"}
FeedPrices == 1..MaxPrice
OrderPrices == {1, MaxPrice}
Sides == {"buy", "sell"}
StopLosses == {NONE, MaxPrice - 1}

(* The hash of an instrument: absent from Redis, or present with a numeric *)
(* "price" field, with no "price" field (only "timestamp" was set), or     *)
(* with a "price" field that float() rejects.                              *)
Hashes ==
    {[kind |-> "absent", price |-> 0],
     [kind |-> "noprice", price |-> 0],
     [kind |-> "badprice", price |-> 0]}
    \cup {[kind |-> "num", price |-> p] : p \in FeedPrices}

(* What fetch_all_data_strip_prefix can return *)
Snapshots == [Instruments -> Hashes]

(* The clock values the stamp of a placed order can read *)
Clock == IF now = 0 THEN {1} ELSE {now, now + 1}

Abs(x) == IF x < 0 THEN -x ELSE x

-----------------------------------------------------------------------------
(* Reading the feed *)

(* Truthy without the test: every lookup taken as a hit *)
Truthy_Always(h) == TRUE

(* `if instrument_data:` -- a hash that exists is a non-empty dict *)
Truthy(h) == h.kind # "absent"

(* float(h.get("price", 0)) raises ValueError on a non-numeric field *)
FloatRaises(h) == h.kind = "badprice"

(* float(h.get("price", 0)) where it does not raise: a missing field reads 0 *)
FloatPrice(h) == IF h.kind = "num" THEN h.price ELSE 0

price_tolerance == 1

(* The comparison with the boundary left out, and with a tolerance of 2 *)
PriceMatch_Strict(live, price) == Abs(live - price) < price_tolerance

PriceMatch_Wide(live, price) == Abs(live - price) <= price_tolerance + 1

(* abs(redis_price - float(price)) <= price_tolerance *)
PriceMatch(live, price) == Abs(live - price) <= price_tolerance

(* place_order_if_price_match: try float(...) except: redis_price = 0.0 *)
redis_price(h) == IF FloatRaises(h) THEN 0 ELSE FloatPrice(h)

-----------------------------------------------------------------------------
(* Documents.  log_ref is a history field no operation reads: the position *)
(* in trade_logs of the record of the order the entry was created for      *)
(* (0 when no record was written for it).                                  *)

BookDoc(i, pt, et, pp, op, side, sl, reason, ref) ==
    [instrument_id |-> i, order_placement_time |-> pt, order_execution_time |-> et,
     order_placement_price |-> pp, order_price |-> op, order_side |-> side,
     stop_loss |-> sl, reason |-> reason, log_ref |-> ref]

LogDoc(i, pt, et, status, pp, op, side, sl) ==
    [instrument_id |-> i, order_placement_time |-> pt, order_execution_time |-> et,
     status |-> status, order_placement_price |-> pp, order_price |-> op,
     order_side |-> side, stop_loss |-> sl]

Min(S) == CHOOSE x \in S : \A y \in S : x <= y

(* The positions of S in increasing order: the order find() returns them *)
RECURSIVE InOrder(_)
InOrder(S) == IF S = {} THEN <<>> ELSE <<Min(S)>> \o InOrder(S \ {Min(S)})

RemoveAt(coll, k) == SubSeq(coll, 1, k - 1) \o SubSeq(coll, k + 1, Len(coll))

(* What an operation hands back: the two collections as it leaves them,   *)
(* the "status" of the dict it returns (or the exception it raises), the  *)
(* "order" of that dict where it has one, and hit: the position in the    *)
(* fetched trade_book of the entry a stop-loss cycle triggered for        *)
Outcome(book, logs, status) ==
    [book |-> book, logs |-> logs, status |-> status, order |-> NONE, hit |-> 0]

-----------------------------------------------------------------------------
(* place_order_if_price_match *)

place_order_if_price_match(instrument_id, price, order_side, stop_loss, book, logs, live_data, t) ==
    LET instrument_data == live_data[instrument_id] IN
    IF Truthy(instrument_data)
    THEN IF PriceMatch(redis_price(instrument_data), price)
         THEN Outcome(
                Append(book, BookDoc(instrument_id, t, t, redis_price(instrument_data),
                                     price, order_side, stop_loss, "none", Len(logs) + 1)),
                Append(logs, LogDoc(instrument_id, t, t, "filled",
                                    redis_price(instrument_data), price, order_side, stop_loss)),
                "order placed")
         ELSE Outcome(
                book,
                Append(logs, LogDoc(instrument_id, t, NONE, "price not matched",
                                    redis_price(instrument_data), price, order_side, stop_loss)),
                "price not matched")
    ELSE Outcome(
           book,
           Append(logs, LogDoc(instrument_id, t, NONE, "not filled", NONE, price,
                               order_side, stop_loss)),
           "instrument not found")

-----------------------------------------------------------------------------
(* square_off *)

(* order_doc with the side of the position it closes *)
order_doc_AsBuy(instrument_id, price, event_time, ref) ==
    BookDoc(instrument_id, event_time, event_time, price, price, "buy", NONE, "none", ref)

(* order_doc and log_doc of square_off; ref is the history field *)
order_doc(instrument_id, price, event_time, ref) ==
    BookDoc(instrument_id, event_time, event_time, price, price, "sell", NONE, "none", ref)

log_doc(instrument_id, price, event_time) ==
    LogDoc(instrument_id, event_time, event_time, "filled", price, price, "sell", NONE)

(* position_df without the filter on the instrument *)
position_df_Unfiltered(book, instrument_id) == 1..Len(book)

(* trade_book_collection.find({"instrument_id": instrument_id}): the *)
(* positions of the entries of the instrument                        *)
position_df(book, instrument_id) ==
    {k \in 1..Len(book) : book[k].instrument_id = instrument_id}

square_off(instrument_id, book, logs, live_data, t) ==
    LET instrument_data == live_data[instrument_id]
    IN
    IF position_df(book, instrument_id) # {}
    THEN \* if instrument_data and "price" in instrument_data
         IF instrument_data.kind \in {"num", "badprice"}
         THEN IF FloatRaises(instrument_data)
              THEN Outcome(book, logs, "ValueError")
              ELSE [Outcome(
                      Append(book, order_doc(instrument_id, FloatPrice(instrument_data), t,
                                             Len(logs) + 1)),
                      Append(logs, log_doc(instrument_id, FloatPrice(instrument_data), t)),
                      "square off order placed")
                    EXCEPT !.order = order_doc(instrument_id, FloatPrice(instrument_data), t,
                                               Len(logs) + 1)]
         ELSE Outcome(book, logs, "instrument not found in live data")
    ELSE Outcome(book, logs, "no open position found to square off")

-----------------------------------------------------------------------------
(* pending_list_orders *)

(* trade_logs_collection.update_one({instrument_id, order_placement_time, *)
(* status: "price not matched"}, {$set: filled ...}): the first match     *)
fill_update(logs, instrument_id, placement_time, execution_time, live_price) ==
    LET m == {j \in 1..Len(logs) :
                /\ logs[j].instrument_id = instrument_id
                /\ logs[j].order_placement_time = placement_time
                /\ logs[j].status = "price not matched"}
    IN IF m = {} THEN logs
       ELSE [logs EXCEPT ![Min(m)] =
                [@ EXCEPT !.status = "filled",
                          !.order_execution_time = execution_time,
                          !.order_placement_price = live_price]]

(* The document without the stop_loss of the order *)
trade_book_doc_NoStopLoss(order, k, live_price, execution_time) ==
    BookDoc(order.instrument_id, order.order_placement_time, execution_time, live_price,
            order.order_price, order.order_side, NONE, "none", k)

(* The trade_book document of a filled pending order; k is the position of *)
(* the fetched order in trade_logs                                         *)
trade_book_doc(order, k, live_price, execution_time) ==
    BookDoc(order.instrument_id, order.order_placement_time, execution_time, live_price,
            order.order_price, order.order_side, order.stop_loss, "none", k)

(* The for loop over the fetched orders: fetched is trade_logs as find()   *)
(* saw it, todo the positions still to visit, st the store so far and the  *)
(* number of orders filled; a ValueError leaves the loop with what was     *)
(* written before it.                                                      *)
RECURSIVE pending_loop(_, _, _, _, _)
pending_loop(fetched, todo, st, live_data, t) ==
    IF todo = <<>> THEN st
    ELSE LET k == Head(todo)
             order == fetched[k]
             live_info == live_data[order.instrument_id]
         IN
         IF ~Truthy(live_info)
         THEN pending_loop(fetched, Tail(todo), st, live_data, t)
         ELSE IF FloatRaises(live_info) THEN [st EXCEPT !.raised = TRUE]
         ELSE IF PriceMatch(FloatPrice(live_info), order.order_price)
              THEN pending_loop(fetched, Tail(todo),
                     [book |-> Append(st.book,
                                      trade_book_doc(order, k, FloatPrice(live_info), t)),
                      logs |-> fill_update(st.logs, order.instrument_id,
                                           order.order_placement_time, t,
                                           FloatPrice(live_info)),
                      filled |-> st.filled + 1,
                      raised |-> FALSE],
                     live_data, t)
              ELSE pending_loop(fetched, Tail(todo), st, live_data, t)

(* The find taking the `not filled` records too *)
not_filled_orders_Any(logs) ==
    InOrder({k \in 1..Len(logs) : logs[k].status \in {"price not matched", "not filled"}})

(* find({"status": "price not matched"}) *)
not_filled_orders(logs) ==
    InOrder({k \in 1..Len(logs) : logs[k].status = "price not matched"})

pending_list_orders(book, logs, live_data, t) ==
    IF not_filled_orders(logs) = <<>>
    THEN Outcome(book, logs, "no pending orders to check")
    ELSE LET st == pending_loop(logs, not_filled_orders(logs),
                                [book |-> book, logs |-> logs, filled |-> 0,
                                 raised |-> FALSE],
                                live_data, t)
         IN Outcome(st.book, st.logs,
                    IF st.raised THEN "ValueError"
                    ELSE IF st.filled > 0 THEN "order(s) filled"
                    ELSE "no order has been filled")

-----------------------------------------------------------------------------
(* implement_stop_loss *)

(* The comparison with the boundary left out *)
StopLossHit_Strict(live_price, stop_loss_price) == live_price < stop_loss_price

(* if live_price <= stop_loss_price *)
StopLossHit(live_price, stop_loss_price) == live_price <= stop_loss_price

(* The first match deleted from the trade-log *)
stop_loss_update_Deleting(logs, instrument_id, placement_time) ==
    LET m == {j \in 1..Len(logs) :
                /\ logs[j].instrument_id = instrument_id
                /\ logs[j].order_placement_time = placement_time}
    IN IF m = {} THEN logs ELSE RemoveAt(logs, Min(m))

(* update_one({instrument_id, order_placement_time}, {$set: status ...}):  *)
(* the first match, whatever its status                                    *)
stop_loss_update(logs, instrument_id, placement_time) ==
    LET m == {j \in 1..Len(logs) :
                /\ logs[j].instrument_id = instrument_id
                /\ logs[j].order_placement_time = placement_time}
    IN IF m = {} THEN logs
       ELSE [logs EXCEPT ![Min(m)] = [@ EXCEPT !.status = "stop loss triggered"]]

(* Every match deleted *)
stop_loss_delete_Many(book, instrument_id, placement_time) ==
    SelectSeq(book, LAMBDA e : ~(/\ e.instrument_id = instrument_id
                                 /\ e.order_placement_time = placement_time))

(* delete_one({instrument_id, order_placement_time}): the first match *)
stop_loss_delete(book, instrument_id, placement_time) ==
    LET m == {j \in 1..Len(book) :
                /\ book[j].instrument_id = instrument_id
                /\ book[j].order_placement_time = placement_time}
    IN IF m = {} THEN book ELSE RemoveAt(book, Min(m))

square_off_doc(instrument_id, live_price, execution_time) ==
    BookDoc(instrument_id, execution_time, execution_time, live_price, live_price,
            "sell", NONE, "stop loss triggered", 0)

stop_loss_orders(book) ==
    InOrder({k \in 1..Len(book) : book[k].stop_loss # NONE})

(* The for loop: returns at the first order whose condition is met; hit is *)
(* the position in the fetched trade_book of the order that triggered      *)
RECURSIVE stop_loss_loop(_, _, _, _, _)
stop_loss_loop(todo, book, logs, live_data, t) ==
    IF todo = <<>>
    THEN Outcome(book, logs, "no stop loss conditions met")
    ELSE LET order == book[Head(todo)]
             live_info == live_data[order.instrument_id]
         IN
         IF ~Truthy(live_info) THEN stop_loss_loop(Tail(todo), book, logs, live_data, t)
         ELSE IF FloatRaises(live_info) THEN Outcome(book, logs, "ValueError")
         ELSE IF StopLossHit(FloatPrice(live_info), order.stop_loss)
              THEN [Outcome(
                      stop_loss_delete(
                          Append(book, square_off_doc(order.instrument_id,
                                                      FloatPrice(live_info), t)),
                          order.instrument_id, order.order_placement_time),
                      stop_loss_update(logs, order.instrument_id, order.order_placement_time),
                      "stop loss triggered")
                    EXCEPT !.hit = Head(todo)]
              ELSE stop_loss_loop(Tail(todo), book, logs, live_data, t)

implement_stop_loss(book, logs, live_data, t) ==
    IF stop_loss_orders(book) = <<>>
    THEN Outcome(book, logs, "no active stop loss orders found")
    ELSE stop_loss_loop(stop_loss_orders(book), book, logs, live_data, t)

-----------------------------------------------------------------------------
(* calculate_mtm_pnl: the grouping, the sort and the FIFO queues *)

(* trades_by_instrument[instrument_id]: the entries of one instrument, in *)
(* the order find() returned them                                         *)
trades_by_instrument(book, instrument_id) ==
    SelectSeq(book, LAMBDA trade : trade.instrument_id = instrument_id)

(* instrument_trades.sort(key=lambda x: x['order_placed_time']) raises     *)
(* KeyError when an entry has no such key                                  *)
sort_raises(instrument_trades) ==
    \E n \in 1..Len(instrument_trades) :
        "order_placed_time" \notin DOMAIN instrument_trades[n]

(* Every trade counted as one unit *)
qty_One(trade) == 1

(* float(trade.get('quantity', 1.0)) *)
qty(trade) == IF "quantity" \in DOMAIN trade THEN trade.quantity ELSE 1

(* The same sign for both sides *)
gain_SameSign(side, entry_price, price, match_qty) == (price - entry_price) * match_qty

(* What a match adds to realized_pnl *)
gain(side, entry_price, price, match_qty) ==
    IF side = "buy" THEN (entry_price - price) * match_qty
    ELSE (price - entry_price) * match_qty

(* The head lot dropped whatever part of it was matched *)
RECURSIVE match_queue_WholeLot(_, _, _, _, _)
match_queue_WholeLot(queue, remaining_qty, price, side, realized_pnl) ==
    IF remaining_qty > 0 /\ queue # <<>>
    THEN LET lot == Head(queue)
             match_qty == IF remaining_qty < lot.qty THEN remaining_qty ELSE lot.qty
         IN match_queue_WholeLot(Tail(queue), remaining_qty - match_qty, price, side,
                                 realized_pnl + gain(side, lot.entry_price, price, match_qty))
    ELSE [queue |-> queue, remaining_qty |-> remaining_qty, realized_pnl |-> realized_pnl]

(* The while loop: match remaining_qty against the front of the opposite  *)
(* queue; a buy closes shorts at (short_price - price), a sell closes     *)
(* longs at (price - long_price)                                          *)
RECURSIVE match_queue(_, _, _, _, _)
match_queue(queue, remaining_qty, price, side, realized_pnl) ==
    IF remaining_qty > 0 /\ queue # <<>>
    THEN LET lot == Head(queue)
             match_qty == IF remaining_qty < lot.qty THEN remaining_qty ELSE lot.qty
         IN match_queue(IF match_qty = lot.qty THEN Tail(queue)
                        ELSE <<[lot EXCEPT !.qty = lot.qty - match_qty]>> \o Tail(queue),
                        remaining_qty - match_qty, price, side,
                        realized_pnl + gain(side, lot.entry_price, price, match_qty))
    ELSE [queue |-> queue, remaining_qty |-> remaining_qty, realized_pnl |-> realized_pnl]

(* The body of `for trade in instrument_trades` *)
fifo_trade(st, trade) ==
    IF trade.order_side = "buy"
    THEN LET m == match_queue(st.short_queue, qty(trade), trade.order_price, "buy",
                              st.realized_pnl)
         IN [long_queue |-> IF m.remaining_qty > 0
                            THEN Append(st.long_queue,
                                        [entry_price |-> trade.order_price,
                                         qty |-> m.remaining_qty])
                            ELSE st.long_queue,
             short_queue |-> m.queue,
             realized_pnl |-> m.realized_pnl]
    ELSE IF trade.order_side = "sell"
    THEN LET m == match_queue(st.long_queue, qty(trade), trade.order_price, "sell",
                              st.realized_pnl)
         IN [long_queue |-> m.queue,
             short_queue |-> IF m.remaining_qty > 0
                             THEN Append(st.short_queue,
                                         [entry_price |-> trade.order_price,
                                          qty |-> m.remaining_qty])
                             ELSE st.short_queue,
             realized_pnl |-> m.realized_pnl]
    ELSE st

RECURSIVE fifo_match(_, _)
fifo_match(st, instrument_trades) ==
    IF instrument_trades = <<>> THEN st
    ELSE fifo_match(fifo_trade(st, Head(instrument_trades)), Tail(instrument_trades))

(* The queues the engine holds for an instrument after the loop, the trades *)
(* taken in the order the collection returned them                          *)
open_lots(book, instrument_id) ==
    fifo_match([long_queue |-> <<>>, short_queue |-> <<>>, realized_pnl |-> 0],
               trades_by_instrument(book, instrument_id))

-----------------------------------------------------------------------------
(* calculate_mtm_pnl: live price, unrealized PnL and the summary.  Amounts *)
(* are integers in thousandths; a nullable number is <<>> (None) or <<x>>. *)

Null == <<>>
Some(x) == <<x>>

(* round(x, 2) cut to the whole hundredth below *)
round2_Floor(x) == (x \div 10) * 10

(* round(x, 2): to the nearest hundredth, a tie to the even one *)
round2(x) ==
    LET a == Abs(x)
        q == a \div 10
        r == a % 10
        m == IF r > 5 \/ (r = 5 /\ q % 2 = 1) THEN q + 1 ELSE q
    IN IF x < 0 THEN -(m * 10) ELSE m * 10

(* instrument_trades.sort(key=...): stable, by order_placed_time; n is the *)
(* number of trades already in place                                       *)
RECURSIVE sort_stable(_, _)
sort_stable(done, todo) ==
    IF todo = <<>> THEN done
    ELSE LET x == Head(todo)
             keep == {n \in 0..Len(done) :
                        \A m \in 1..n : done[m].order_placed_time <= x.order_placed_time}
             at == CHOOSE n \in keep : \A m \in keep : m <= n
         IN sort_stable(SubSeq(done, 1, at) \o <<x>> \o SubSeq(done, at + 1, Len(done)),
                        Tail(todo))

(* A hash without a numeric price read as the price 0 *)
live_price_of_Zero(live_entry) ==
    IF live_entry.kind = "num" THEN <<live_entry.price>> ELSE <<0>>

(* live_price: None without a hash, and when float(live_entry["price"]) *)
(* raises (no such field, or a non-numeric one)                         *)
live_price_of(live_entry) ==
    IF ~Truthy(live_entry) THEN Null
    ELSE IF live_entry.kind = "num" THEN Some(live_entry.price)
    ELSE Null

RECURSIVE sum_lots(_, _, _)
sum_lots(queue, live_price, side) ==
    IF queue = <<>> THEN 0
    ELSE (IF side = "long" THEN (live_price - Head(queue).entry_price) * Head(queue).qty
          ELSE (Head(queue).entry_price - live_price) * Head(queue).qty)
         + sum_lots(Tail(queue), live_price, side)

(* unrealized_pnl: None when live_price is None *)
unrealized_pnl_of(st, live_price) ==
    IF live_price = Null THEN Null
    ELSE Some(sum_lots(st.long_queue, live_price[1], "long")
              + sum_lots(st.short_queue, live_price[1], "short"))

(* results[instrument_id], with the unrounded amounts kept beside it *)
instrument_result(instrument_trades, live_entry) ==
    LET st == fifo_match([long_queue |-> <<>>, short_queue |-> <<>>, realized_pnl |-> 0],
                         sort_stable(<<>>, instrument_trades))
        live_price == live_price_of(live_entry)
        unrealized_pnl == unrealized_pnl_of(st, live_price)
        mtm == st.realized_pnl + (IF unrealized_pnl # Null THEN unrealized_pnl[1] ELSE 0)
    IN [realized_pnl |-> round2(st.realized_pnl),
        unrealized_pnl |-> IF unrealized_pnl = Null THEN Null
                           ELSE Some(round2(unrealized_pnl[1])),
        mtm_pnl |-> IF unrealized_pnl = Null THEN Null ELSE Some(round2(mtm)),
        live_price |-> live_price,
        open_long_positions |-> st.long_queue,
        open_short_positions |-> st.short_queue,
        realized |-> st.realized_pnl,
        unrealized |-> unrealized_pnl]

RECURSIVE sum_over(_, _)
sum_over(S, f) ==
    IF S = {} THEN 0
    ELSE LET x == CHOOSE y \in S : TRUE IN f[x] + sum_over(S \ {x}, f)

(* The dict calculate_mtm_pnl returns, or the KeyError of the sort *)
calculate_mtm_pnl(book, live_data) ==
    LET insts == {book[n].instrument_id : n \in 1..Len(book)}
    IN IF \E i \in insts : sort_raises(trades_by_instrument(book, i))
       THEN [status |-> "KeyError"]
       ELSE LET results == [i \in insts |->
                               instrument_result(trades_by_instrument(book, i), live_data[i])]
                total_realized == sum_over(insts, [i \in insts |-> results[i].realized])
                total_unrealized ==
                    sum_over({i \in insts : results[i].unrealized # Null},
                             [i \in insts |-> IF results[i].unrealized # Null
                                              THEN results[i].unrealized[1] ELSE 0])
            IN [status |-> "ok",
                results |-> results,
                total_realized_pnl |-> round2(total_realized),
                total_unrealized_pnl |-> IF insts # {} THEN round2(total_unrealized) ELSE 0,
                overall_mtm_pnl |-> IF insts # {}
                                    THEN round2(total_realized + total_unrealized) ELSE 0]

-----------------------------------------------------------------------------
(* check_trade_losses: the scan of the trade-book for losses.  Prices are  *)
(* integers in hundredths, the threshold is in percent.                    *)

threshold_pct == 1

(* str(raw_id) *)
trade_id_of(trade) == ToString(trade._id)

(* The loss of a buy, and of a sell, before the division by order_price *)
loss_of(side, order_price, current_price) ==
    IF side = "buy" THEN order_price - current_price ELSE current_price - order_price

(* loss_pct > threshold, where loss_pct = loss / order_price * 100 and *)
(* order_price is above 0                                              *)
over_threshold(side, order_price, current_price, threshold) ==
    loss_of(side, order_price, current_price) * 100 > threshold * order_price

(* The line appended to the log file *)
alert_of(trade, current_price) ==
    [trade_id |-> trade_id_of(trade),
     instrument_id |-> trade.instrument_id,
     order_side |-> trade.order_side,
     order_price |-> trade.order_price,
     current_price |-> current_price]

(* `for trade in cursor`: the records left to scan, the ids alerted so far *)
(* and the log file; the division by an order_price of 0 raises out of the *)
(* loop with the lines already appended left in the file                   *)
RECURSIVE scan_loop(_, _, _, _, _)
scan_loop(todo, alerted_ids, log, market_data, threshold) ==
    IF todo = <<>> THEN [status |-> "ok", alerted_ids |-> alerted_ids, log |-> log]
    ELSE LET trade == Head(todo)
             live_entry == market_data[trade.instrument_id]
         IN IF \/ trade_id_of(trade) \in alerted_ids
               \/ live_entry.kind = "absent"
               \/ live_entry.kind \in {"noprice", "badprice"}
               \/ trade.order_side \notin {"buy", "sell"}
            THEN scan_loop(Tail(todo), alerted_ids, log, market_data, threshold)
            ELSE IF trade.order_price = 0
            THEN [status |-> "ZeroDivisionError", alerted_ids |-> alerted_ids, log |-> log]
            ELSE IF over_threshold(trade.order_side, trade.order_price, live_entry.price,
                                   threshold)
            THEN scan_loop(Tail(todo), alerted_ids \cup {trade_id_of(trade)},
                           Append(log, alert_of(trade, live_entry.price)),
                           market_data, threshold)
            ELSE scan_loop(Tail(todo), alerted_ids, log, market_data, threshold)

(* `if alerted_ids is None: alerted_ids = set()`; the argument is Null or *)
(* Some(the caller's set)                                                *)
fresh_ids(alerted_ids) == IF alerted_ids = Null THEN {} ELSE alerted_ids[1]

(* check_trade_losses(redis_client, trade_book_coll, threshold_pct,        *)
(* alerted_ids): the list returned, as a set, and the log file afterwards  *)
check_trade_losses(book, market_data, threshold, alerted_ids, log) ==
    scan_loop(book, fresh_ids(alerted_ids), log, market_data, threshold)

(* The positions of the trade-book entries of an instrument *)
EntriesFor(book, i) == {n \in 1..Len(book) : book[n].instrument_id = i}

-----------------------------------------------------------------------------
(* The state machine *)

(* The record of the last operation that wrote to a collection: its name *)
(* and its outcome.  An operation that writes nothing leaves no trace.   *)
Ran(op, r) ==
    IF r.book = trade_book /\ r.logs = trade_logs THEN last
    ELSE [op |-> op, status |-> r.status, hit |-> r.hit]

(* The snapshots that differ on the instruments of S: an operation looks  *)
(* up only the instruments its documents name, the others are left absent *)
SnapshotsOver(S) ==
    {live_data \in Snapshots : \A i \in Instruments \ S : live_data[i].kind = "absent"}

InstrumentsOf(coll, ks) == {coll[ks[n]].instrument_id : n \in 1..Len(ks)}

(* The tasks of the server: the handler of a place-order request, the    *)
(* three background threads, the handler of a get-PnL request and the    *)
(* pending_list_thread of a second process running server.py; a task     *)
(* that is in no call is Idle                                            *)
Tasks == {"place_order", "pending_list", "pending_list_2", "stop_loss", "alert", "get_mtm"}

Idle == [pc |-> "idle"]

Init ==
    /\ trade_book = <<>>
    /\ trade_logs = <<>>
    /\ now = 0
    /\ loss_alerts = <<>>
    /\ tasks = [task \in Tasks |-> Idle]
    /\ last = [op |-> "init", status |-> "", hit |-> 0]

(* The requests the model admits: those that find a trade-log shorter than *)
(* MaxOrders                                                               *)
Admitted == Len(trade_logs) < MaxOrders

(* POST /place_order with the request's fields, stamped t, reading live_data *)
PlaceOrderWith(i, p, side, sl, t, live_data) ==
    /\ Admitted
    /\ LET r == place_order_if_price_match(i, p, side, sl, trade_book, trade_logs,
                                           live_data, t)
       IN /\ trade_book' = r.book
          /\ trade_logs' = r.logs
          /\ last' = Ran("place_order", r)
    /\ now' = t
    /\ UNCHANGED <<loss_alerts, tasks>>

PlaceOrder ==
    \E i \in Instruments, p \in OrderPrices, side \in Sides, sl \in StopLosses,
       t \in Clock :
        \E live_data \in SnapshotsOver({i}) :
            PlaceOrderWith(i, p, side, sl, t, live_data)

SquareOffWith(i, t, live_data) ==
    /\ Admitted
    /\ LET r == square_off(i, trade_book, trade_logs, live_data, t)
       IN /\ trade_book' = r.book
          /\ trade_logs' = r.logs
          /\ last' = Ran("square_off", r)
          /\ now' = IF r.status = "square off order placed" THEN t ELSE now
    /\ UNCHANGED <<loss_alerts, tasks>>

(* The sell is stamped after the previous stamp *)
SquareOff ==
    \E i \in Instruments :
        \E live_data \in SnapshotsOver({i}) :
            SquareOffWith(i, now + 1, live_data)

(* One cycle of pending_list_thread.  The execution time of a fill is no   *)
(* key of any filter: it is the clock value of the last stamp.             *)
PendingListWith(live_data) ==
    /\ LET r == pending_list_orders(trade_book, trade_logs, live_data, now)
       IN /\ trade_book' = r.book
          /\ trade_logs' = r.logs
          /\ last' = Ran("pending_list", r)
    /\ UNCHANGED <<now, loss_alerts, tasks>>

PendingList ==
    \E live_data \in SnapshotsOver(InstrumentsOf(trade_logs, not_filled_orders(trade_logs))) :
        PendingListWith(live_data)

(* One cycle of stop_loss_thread *)
StopLossWith(t, live_data) ==
    /\ LET r == implement_stop_loss(trade_book, trade_logs, live_data, t)
       IN /\ trade_book' = r.book
          /\ trade_logs' = r.logs
          /\ last' = Ran("stop_loss", r)
          /\ now' = IF r.status = "stop loss triggered" THEN t ELSE now
    /\ UNCHANGED <<loss_alerts, tasks>>

(* The sell is stamped after the previous stamp *)
StopLoss ==
    \E live_data \in SnapshotsOver(InstrumentsOf(trade_book, stop_loss_orders(trade_book))) :
        StopLossWith(now + 1, live_data)

Next == PlaceOrder \/ SquareOff \/ PendingList \/ StopLoss

Spec == Init /\ [][Next]_vars

-----------------------------------------------------------------------------
(* The PnL engine on the trade documents it reads: instrument_id,          *)
(* order_side, order_price, quantity and order_placed_time.  The trades    *)
(* are written to the collection in any order of their placement times.    *)

MaxTrades == 3      \* no trade is inserted in a longer trade-book

TradePrices == {10, 30}
Quantities == {1, 2}
PlacedTimes == {1, 2}
LivePrices == {20}

TradeDoc(i, side, price, quantity, placed) ==
    [instrument_id |-> i, order_side |-> side, order_price |-> price,
     quantity |-> quantity, order_placed_time |-> placed]

PnlHashes ==
    {[kind |-> "absent", price |-> 0],
     [kind |-> "noprice", price |-> 0],
     [kind |-> "badprice", price |-> 0]}
    \cup {[kind |-> "num", price |-> p] : p \in LivePrices}

(* The snapshots get-PnL can tell apart: it looks up the instruments of *)
(* the trade-book                                                       *)
PnlSnapshots ==
    {live_data \in [Instruments -> PnlHashes] :
        \A i \in Instruments :
            EntriesFor(trade_book, i) = {} => live_data[i].kind = "absent"}

InsertTradeWith(i, side, price, quantity, placed) ==
    /\ Len(trade_book) < MaxTrades
    /\ trade_book' = Append(trade_book, TradeDoc(i, side, price, quantity, placed))
    /\ last' = [op |-> "insert_trade", status |-> "", hit |-> 0]
    /\ UNCHANGED <<trade_logs, now, loss_alerts, tasks>>

InsertTrade ==
    \E i \in Instruments, side \in Sides, price \in TradePrices,
       quantity \in Quantities, placed \in PlacedTimes :
        InsertTradeWith(i, side, price, quantity, placed)

(* The call as if it sorted the collection, not the list it fetched *)
GetMtmWith_Sorting(live_data) ==
    /\ last' = [op |-> "get_mtm", status |-> calculate_mtm_pnl(trade_book, live_data).status,
                hit |-> 0]
    /\ trade_book' = sort_stable(<<>>, trade_book)
    /\ UNCHANGED <<trade_logs, now, loss_alerts, tasks>>

(* GET /get_mtm, reading live_data: the response is a function of the *)
(* trade-book and the snapshot, last keeps how the call ended         *)
GetMtmWith(live_data) ==
    /\ last' = [op |-> "get_mtm", status |-> calculate_mtm_pnl(trade_book, live_data).status,
                hit |-> 0]
    /\ UNCHANGED <<trade_book, trade_logs, now, loss_alerts, tasks>>

GetMtm == \E live_data \in PnlSnapshots : GetMtmWith(live_data)

PnlNext == InsertTrade \/ GetMtm

PnlSpec == Init /\ [][PnlNext]_vars

-----------------------------------------------------------------------------
(* The loss-alert engine on the trade documents it reads: _id,             *)
(* instrument_id, order_side and order_price                               *)

MaxAlertTrades == 2   \* trade documents in the trade-book
MaxAlerts == 3        \* no scan on a log file that a scan could take past this

AlertSides == {"buy", "sell", "hold"}
AlertOrderPrices == {0, 100}
AlertLivePrices == {98, 99, 102}

AlertDoc(id, i, side, price) ==
    [_id |-> id, instrument_id |-> i, order_side |-> side, order_price |-> price]

AlertHashes ==
    {[kind |-> "absent", price |-> 0],
     [kind |-> "noprice", price |-> 0],
     [kind |-> "badprice", price |-> 0]}
    \cup {[kind |-> "num", price |-> p] : p \in AlertLivePrices}

(* The snapshots a scan can tell apart: it looks up the instruments of the *)
(* trade-book                                                              *)
AlertSnapshots ==
    {market_data \in [Instruments -> AlertHashes] :
        \A i \in Instruments : EntriesFor(trade_book, i) = {} => market_data[i].kind = "absent"}

(* A document inserted in trade_book_collection; _id is new *)
InsertAlertTradeWith(i, side, price) ==
    /\ Len(trade_book) < MaxAlertTrades
    /\ trade_book' = Append(trade_book, AlertDoc(Len(trade_book) + 1, i, side, price))
    /\ last' = [op |-> "insert_trade", status |-> "", hit |-> 0]
    /\ UNCHANGED <<trade_logs, now, loss_alerts, tasks>>

InsertAlertTrade ==
    \E i \in Instruments, side \in AlertSides, price \in AlertOrderPrices :
        InsertAlertTradeWith(i, side, price)

(* One call of check_trade_losses(redis_client, trade_book_collection) by  *)
(* the server: default threshold, no alerted_ids.  The response is the     *)
(* list returned; when the call raises there is none.                      *)
ScanWith(op, market_data) ==
    /\ Len(loss_alerts) + Len(trade_book) <= MaxAlerts
    /\ LET r == check_trade_losses(trade_book, market_data, threshold_pct, Null, loss_alerts)
       IN /\ loss_alerts' = r.log
          /\ last' = [op |-> op, status |-> r.status, hit |-> 0,
                      response |-> IF r.status = "ok" THEN r.alerted_ids ELSE {}]
    /\ UNCHANGED <<trade_book, trade_logs, now, tasks>>

(* One cycle of alert_thread *)
AlertThread == \E market_data \in AlertSnapshots : ScanWith("alert_thread", market_data)

(* GET /get_alerts *)
GetAlerts == \E market_data \in AlertSnapshots : ScanWith("get_alerts", market_data)

AlertNext == InsertAlertTrade \/ AlertThread \/ GetAlerts

AlertSpec == Init /\ [][AlertNext]_vars

-----------------------------------------------------------------------------
(* Both engines on one store: trade documents with the fields either of   *)
(* them reads, and a trade-log record beside each                         *)

MaxReadTrades == 2

ReadPrices == {100}

ReadDoc(id, i, side, price, placed) ==
    [_id |-> id, instrument_id |-> i, order_side |-> side, order_price |-> price,
     quantity |-> 1, order_placed_time |-> placed]

(* A document inserted in trade_book_collection and one in *)
(* trade_logs_collection                                   *)
InsertReadTradeWith(i, side, price, placed) ==
    /\ Len(trade_book) < MaxReadTrades
    /\ trade_book' = Append(trade_book, ReadDoc(Len(trade_book) + 1, i, side, price, placed))
    /\ trade_logs' = Append(trade_logs, ReadDoc(Len(trade_book) + 1, i, side, price, placed))
    /\ last' = [op |-> "insert_trade", status |-> "", hit |-> 0]
    /\ UNCHANGED <<now, loss_alerts, tasks>>

InsertReadTrade ==
    \E i \in Instruments, side \in Sides, price \in ReadPrices, placed \in PlacedTimes :
        InsertReadTradeWith(i, side, price, placed)

ReadNext == InsertReadTrade \/ GetMtm \/ AlertThread \/ GetAlerts

ReadSpec == Init /\ [][ReadNext]_vars

-----------------------------------------------------------------------------
(* The order engine store operation by store operation: the handler of a   *)
(* place-order request, pending_list_thread and stop_loss_thread run side  *)
(* by side, and a step is one insert_one, update_one, delete_one or find   *)
(* of a call.  Every stamp is later than the one before it, so no two      *)
(* documents share instrument and placement time here.                     *)

MaxConcOrders == 2    \* no place-order request on a longer trade-log

ConcSides == {"buy"}

Running(task) == tasks[task].pc # "idle"

(* POST /place_order up to its first store operation: for a matched price  *)
(* trade_book_collection.insert_one(order_doc), with the insert of log_doc *)
(* still to come; otherwise the single insert of log_doc                   *)
PlaceBeginWith(i, p, side, sl, live_data) ==
    /\ ~Running("place_order")
    /\ Len(trade_logs) < MaxConcOrders
    /\ LET r == place_order_if_price_match(i, p, side, sl, trade_book, trade_logs,
                                           live_data, now + 1)
       IN /\ last' = Ran("place_order", r)
          /\ IF r.status = "order placed"
             THEN /\ trade_book' = r.book
                  /\ trade_logs' = trade_logs
                  /\ tasks' = [tasks EXCEPT !["place_order"] =
                                  [pc |-> "insert_log", log_doc |-> r.logs[Len(r.logs)]]]
             ELSE /\ trade_book' = trade_book
                  /\ trade_logs' = r.logs
                  /\ tasks' = tasks
    /\ now' = now + 1
    /\ UNCHANGED loss_alerts

PlaceBegin ==
    \E i \in Instruments, p \in OrderPrices, side \in ConcSides, sl \in StopLosses :
        \E live_data \in SnapshotsOver({i}) :
            PlaceBeginWith(i, p, side, sl, live_data)

(* trade_logs_collection.insert_one(log_doc) of a matched order *)
PlaceInsertLog ==
    /\ tasks["place_order"].pc = "insert_log"
    /\ trade_logs' = Append(trade_logs, tasks["place_order"].log_doc)
    /\ tasks' = [tasks EXCEPT !["place_order"] = Idle]
    /\ UNCHANGED <<trade_book, now, loss_alerts, last>>

(* A cycle of pending_list_thread up to the start of its loop: the find on *)
(* trade_logs and the snapshot                                             *)
PendingFindOf(thread, live_data) ==
    /\ ~Running(thread)
    /\ not_filled_orders(trade_logs) # <<>>
    /\ tasks' = [tasks EXCEPT ![thread] =
                    [pc |-> "loop", fetched |-> trade_logs,
                     todo |-> not_filled_orders(trade_logs), live_data |-> live_data]]
    /\ UNCHANGED <<trade_book, trade_logs, now, loss_alerts, last>>

PendingFindWith(live_data) == PendingFindOf("pending_list", live_data)

PendingFind ==
    \E live_data \in SnapshotsOver(InstrumentsOf(trade_logs, not_filled_orders(trade_logs))) :
        PendingFindWith(live_data)

(* The loop of the cycle with todo left to visit: over when nothing is *)
LoopOn(task, todo) ==
    IF todo = <<>> THEN Idle
    ELSE [pc |-> "loop", fetched |-> task.fetched, todo |-> todo,
          live_data |-> task.live_data]

(* One turn of the for loop up to its first store operation: update_one   *)
(* for an order whose price matches, with insert_one still to come; a     *)
(* ValueError ends the cycle                                              *)
PendingVisitOf(thread) ==
    /\ tasks[thread].pc = "loop"
    /\ LET task == tasks[thread]
           k == Head(task.todo)
           order == task.fetched[k]
           live_info == task.live_data[order.instrument_id]
       IN IF ~Truthy(live_info)
          THEN /\ tasks' = [tasks EXCEPT ![thread] = LoopOn(task, Tail(task.todo))]
               /\ UNCHANGED trade_logs
          ELSE IF FloatRaises(live_info)
          THEN /\ tasks' = [tasks EXCEPT ![thread] = Idle]
               /\ UNCHANGED trade_logs
          ELSE IF PriceMatch(FloatPrice(live_info), order.order_price)
          THEN /\ trade_logs' = fill_update(trade_logs, order.instrument_id,
                                            order.order_placement_time, now,
                                            FloatPrice(live_info))
               /\ tasks' = [tasks EXCEPT ![thread] =
                               [pc |-> "insert", fetched |-> task.fetched,
                                todo |-> task.todo, live_data |-> task.live_data,
                                trade_book_doc |->
                                    trade_book_doc(order, k, FloatPrice(live_info), now)]]
          ELSE /\ tasks' = [tasks EXCEPT ![thread] = LoopOn(task, Tail(task.todo))]
               /\ UNCHANGED trade_logs
    /\ UNCHANGED <<trade_book, now, loss_alerts, last>>

PendingVisit == PendingVisitOf("pending_list")

(* trade_book_collection.insert_one(trade_book_doc) of the order just *)
(* updated                                                            *)
PendingInsertOf(thread) ==
    /\ tasks[thread].pc = "insert"
    /\ trade_book' = Append(trade_book, tasks[thread].trade_book_doc)
    /\ tasks' = [tasks EXCEPT ![thread] =
                    LoopOn(tasks[thread], Tail(tasks[thread].todo))]
    /\ last' = [op |-> "pending_list", status |-> "order(s) filled", hit |-> 0]
    /\ UNCHANGED <<trade_logs, now, loss_alerts>>

PendingInsert == PendingInsertOf("pending_list")

(* A cycle of stop_loss_thread up to its first store operation: the find   *)
(* on trade_book, the snapshot and the loop up to the order that triggers  *)
StopLossFindWith(live_data) ==
    /\ ~Running("stop_loss")
    /\ LET r == implement_stop_loss(trade_book, trade_logs, live_data, now + 1)
       IN /\ r.status = "stop loss triggered"
          /\ tasks' = [tasks EXCEPT !["stop_loss"] =
                          [pc |-> "insert", order |-> trade_book[r.hit],
                           live_price |-> r.book[Len(r.book)].order_price]]
    /\ UNCHANGED <<trade_book, trade_logs, now, loss_alerts, last>>

StopLossFind ==
    \E live_data \in SnapshotsOver(InstrumentsOf(trade_book, stop_loss_orders(trade_book))) :
        StopLossFindWith(live_data)

(* trade_book_collection.insert_one(square_off_doc) *)
StopLossInsert ==
    /\ tasks["stop_loss"].pc = "insert"
    /\ trade_book' = Append(trade_book,
                            square_off_doc(tasks["stop_loss"].order.instrument_id,
                                           tasks["stop_loss"].live_price, now + 1))
    /\ now' = now + 1
    /\ tasks' = [tasks EXCEPT !["stop_loss"].pc = "update"]
    /\ UNCHANGED <<trade_logs, loss_alerts, last>>

(* trade_logs_collection.update_one(...) *)
StopLossUpdate ==
    /\ tasks["stop_loss"].pc = "update"
    /\ trade_logs' = stop_loss_update(trade_logs, tasks["stop_loss"].order.instrument_id,
                                      tasks["stop_loss"].order.order_placement_time)
    /\ tasks' = [tasks EXCEPT !["stop_loss"].pc = "delete"]
    /\ UNCHANGED <<trade_book, now, loss_alerts, last>>

(* trade_book_collection.delete_one(...), and the return *)
StopLossDelete ==
    /\ tasks["stop_loss"].pc = "delete"
    /\ trade_book' = stop_loss_delete(trade_book, tasks["stop_loss"].order.instrument_id,
                                      tasks["stop_loss"].order.order_placement_time)
    /\ tasks' = [tasks EXCEPT !["stop_loss"] = Idle]
    /\ last' = [op |-> "stop_loss", status |-> "stop loss triggered", hit |-> 0]
    /\ UNCHANGED <<trade_logs, now, loss_alerts>>

ConcNext ==
    \/ PlaceBegin \/ PlaceInsertLog
    \/ PendingFind \/ PendingVisit \/ PendingInsert
    \/ StopLossFind \/ StopLossInsert \/ StopLossUpdate \/ StopLossDelete

ConcSpec == Init /\ [][ConcNext]_vars

-----------------------------------------------------------------------------
(* The FIFO loop of calculate_mtm_pnl for one instrument, one iteration of *)
(* its while loops at a time.  trade_book holds instrument_trades, sorted; *)
(* the get_mtm task holds the locals of the call: k trades are done, pc is *)
(* "for" between two trades and "while" inside the matching of trade k+1.  *)

MaxFifoTrades == 3    \* instrument_trades has at most this many trades

FifoSides == {"buy", "sell", "hold"}
FifoQuantities == {0, 1, 2}
FifoPrices == {10, 30}

FifoTrades ==
    {TradeDoc("X", side, price, quantity, 1) :
        side \in FifoSides, price \in FifoPrices, quantity \in FifoQuantities}

FifoInputs == UNION {[1..n -> FifoTrades] : n \in 0..MaxFifoTrades}

(* long_queue = [], short_queue = [], realized_pnl = 0.0 *)
FifoStart ==
    [pc |-> "for", k |-> 0, remaining_qty |-> 0,
     long_queue |-> <<>>, short_queue |-> <<>>, realized_pnl |-> 0]

FifoInit ==
    /\ trade_book \in FifoInputs
    /\ trade_logs = <<>>
    /\ now = 0
    /\ loss_alerts = <<>>
    /\ tasks = [task \in Tasks |-> IF task = "get_mtm" THEN FifoStart ELSE Idle]
    /\ last = [op |-> "init", status |-> "", hit |-> 0]

(* The queue a trade of this side matches against, and the one it joins *)
opposite_queue(st, side) == IF side = "buy" THEN st.short_queue ELSE st.long_queue

own_queue(st, side) == IF side = "buy" THEN st.long_queue ELSE st.short_queue

with_queues(st, side, opposite, own) ==
    IF side = "buy"
    THEN [st EXCEPT !.short_queue = opposite, !.long_queue = own]
    ELSE [st EXCEPT !.long_queue = opposite, !.short_queue = own]

(* `for trade in instrument_trades`: the next trade; remaining_qty = qty, *)
(* or `continue` on an unknown side                                       *)
FifoTake ==
    LET st == tasks["get_mtm"] IN
    /\ st.pc = "for"
    /\ st.k < Len(trade_book)
    /\ LET trade == trade_book[st.k + 1]
       IN tasks' = [tasks EXCEPT !["get_mtm"] =
                       IF trade.order_side \in {"buy", "sell"}
                       THEN [st EXCEPT !.pc = "while", !.remaining_qty = qty(trade)]
                       ELSE [st EXCEPT !.k = st.k + 1]]
    /\ UNCHANGED <<trade_book, trade_logs, now, loss_alerts, last>>

(* The head lot left in the queue with quantity 0 when it is matched whole *)
match_one_KeepsHead(queue, remaining_qty) ==
    LET lot == Head(queue)
        match_qty == IF remaining_qty < lot.qty THEN remaining_qty ELSE lot.qty
    IN <<[lot EXCEPT !.qty = lot.qty - match_qty]>> \o Tail(queue)

(* The head lot popped whatever part of it was matched *)
match_one_WholeLot(queue, remaining_qty) == Tail(queue)

(* One iteration of `while remaining_qty > 0 and queue`: the queue after *)
(* the pop or the reduction of its head lot                              *)
match_one(queue, remaining_qty) ==
    LET lot == Head(queue)
        match_qty == IF remaining_qty < lot.qty THEN remaining_qty ELSE lot.qty
    IN IF match_qty = lot.qty THEN Tail(queue)
       ELSE <<[lot EXCEPT !.qty = lot.qty - match_qty]>> \o Tail(queue)

FifoMatch ==
    LET st == tasks["get_mtm"]
        trade == trade_book[st.k + 1]
        queue == opposite_queue(st, trade.order_side)
    IN
    /\ st.pc = "while"
    /\ st.remaining_qty > 0 /\ queue # <<>>
    /\ LET lot == Head(queue)
           match_qty == IF st.remaining_qty < lot.qty THEN st.remaining_qty ELSE lot.qty
       IN tasks' = [tasks EXCEPT !["get_mtm"] =
                       [with_queues(st, trade.order_side,
                                    match_one(queue, st.remaining_qty),
                                    own_queue(st, trade.order_side))
                        EXCEPT !.remaining_qty = st.remaining_qty - match_qty,
                               !.realized_pnl = st.realized_pnl
                                   + gain(trade.order_side, lot.entry_price,
                                          trade.order_price, match_qty)]]
    /\ UNCHANGED <<trade_book, trade_logs, now, loss_alerts, last>>

(* A remainder appended whatever is left in the opposite queue *)
leftover_Always(remaining_qty) == TRUE

(* `if remaining_qty > 0:` the leftover becomes a lot *)
leftover(remaining_qty) == remaining_qty > 0

(* The while loop is left: the leftover is appended to the trade's own queue *)
FifoAppend ==
    LET st == tasks["get_mtm"]
        trade == trade_book[st.k + 1]
        queue == opposite_queue(st, trade.order_side)
    IN
    /\ st.pc = "while"
    /\ ~(st.remaining_qty > 0 /\ queue # <<>>)
    /\ tasks' = [tasks EXCEPT !["get_mtm"] =
                    [with_queues(st, trade.order_side, queue,
                                 IF leftover(st.remaining_qty)
                                 THEN Append(own_queue(st, trade.order_side),
                                             [entry_price |-> trade.order_price,
                                              qty |-> st.remaining_qty])
                                 ELSE own_queue(st, trade.order_side))
                     EXCEPT !.pc = "for", !.k = st.k + 1, !.remaining_qty = 0]]
    /\ UNCHANGED <<trade_book, trade_logs, now, loss_alerts, last>>

FifoNext == FifoTake \/ FifoMatch \/ FifoAppend

FifoSpec == FifoInit /\ [][FifoNext]_vars

-----------------------------------------------------------------------------
(* The three background threads as loops: `while True: try: <operation>;   *)
(* time.sleep(..) except Exception as e: ...; time.sleep(5)`.  A thread is *)
(* at the head of its loop ("idle"), asleep after its cycle ("sleep"), in  *)
(* the raise of its operation ("except") or ended ("dead"); cycles counts  *)
(* the calls it has made and raised is the number of the last call that    *)
(* raised.  A call runs as one step here.                                  *)

MaxCycles == 2        \* no thread starts a cycle after its MaxCycles-th
MaxThreadOrders == 1  \* no place-order request on a longer trade-log

Threads == {"pending_list", "stop_loss", "alert"}

ThreadPrices == {0}

AtLoopHead == [pc |-> "idle", cycles |-> 0, raised |-> 0, error |-> ""]

ThreadInit ==
    /\ trade_book = <<>>
    /\ trade_logs = <<>>
    /\ now = 0
    /\ loss_alerts = <<>>
    /\ tasks = [task \in Tasks |-> AtLoopHead]
    /\ last = [op |-> "init", status |-> "", hit |-> 0]

(* POST /place_order: a buy of X, stamped after the previous stamp *)
ThreadPlaceOrder ==
    /\ Len(trade_logs) < MaxThreadOrders
    /\ \E p \in ThreadPrices, sl \in StopLosses :
           \E live_data \in SnapshotsOver({"X"}) :
               PlaceOrderWith("X", p, "buy", sl, now + 1, live_data)

(* The errors the operations raise *)
Errors == {"ValueError", "ZeroDivisionError"}

(* A handler for KeyError only *)
Catches_KeyError(error) == error = "KeyError"

(* `except Exception`: ValueError and ZeroDivisionError are subclasses of *)
(* Exception                                                              *)
Catches(error) == error \in Errors

(* The head of the loop, about to call the operation *)
AtCall(task) == tasks[task].pc = "idle" /\ tasks[task].cycles < MaxCycles

(* The thread after a call that returned or raised with status *)
AfterCall(task, status) ==
    [tasks EXCEPT ![task] =
        IF status \in Errors
        THEN [pc |-> "except", cycles |-> @.cycles + 1, raised |-> @.cycles + 1,
              error |-> status]
        ELSE [pc |-> "sleep", cycles |-> @.cycles + 1, raised |-> @.raised,
              error |-> ""]]

(* pending_list_thread: result = pending_list_orders(...) *)
PendingListCycleWith(live_data) ==
    /\ AtCall("pending_list")
    /\ LET r == pending_list_orders(trade_book, trade_logs, live_data, now)
       IN /\ trade_book' = r.book
          /\ trade_logs' = r.logs
          /\ last' = Ran("pending_list", r)
          /\ tasks' = AfterCall("pending_list", r.status)
    /\ UNCHANGED <<now, loss_alerts>>

PendingListCycle ==
    \E live_data \in SnapshotsOver(InstrumentsOf(trade_logs, not_filled_orders(trade_logs))) :
        PendingListCycleWith(live_data)

(* stop_loss_thread: sl_result = implement_stop_loss(...) *)
StopLossCycleWith(live_data) ==
    /\ AtCall("stop_loss")
    /\ LET r == implement_stop_loss(trade_book, trade_logs, live_data, now + 1)
       IN /\ trade_book' = r.book
          /\ trade_logs' = r.logs
          /\ last' = Ran("stop_loss", r)
          /\ now' = IF r.status = "stop loss triggered" THEN now + 1 ELSE now
          /\ tasks' = AfterCall("stop_loss", r.status)
    /\ UNCHANGED loss_alerts

StopLossCycle ==
    \E live_data \in SnapshotsOver(InstrumentsOf(trade_book, stop_loss_orders(trade_book))) :
        StopLossCycleWith(live_data)

(* trade_book_coll.find({}, {...}): the documents with their _id and the *)
(* fields the scan reads                                                 *)
cursor(book) ==
    [n \in 1..Len(book) |->
        [_id |-> n, instrument_id |-> book[n].instrument_id,
         order_side |-> book[n].order_side, order_price |-> book[n].order_price]]

(* alert_thread: sl_result = check_trade_losses(redis_client, trade_book_collection) *)
AlertCycleWith(market_data) ==
    /\ AtCall("alert")
    /\ LET r == check_trade_losses(cursor(trade_book), market_data, threshold_pct, Null,
                                   loss_alerts)
       IN /\ loss_alerts' = r.log
          /\ tasks' = AfterCall("alert", r.status)
    /\ UNCHANGED <<trade_book, trade_logs, now, last>>

AlertCycle ==
    \E market_data \in SnapshotsOver({i \in Instruments : EntriesFor(trade_book, i) # {}}) :
        AlertCycleWith(market_data)

(* The except clause: an error it catches is printed and the thread sleeps; *)
(* one it does not catch ends the thread                                    *)
Handle(task) ==
    /\ tasks[task].pc = "except"
    /\ tasks' = [tasks EXCEPT ![task] =
                    [pc |-> IF Catches(tasks[task].error) THEN "sleep" ELSE "dead",
                     cycles |-> @.cycles, raised |-> @.raised, error |-> ""]]
    /\ UNCHANGED <<trade_book, trade_logs, now, loss_alerts, last>>

(* time.sleep returns: back to `while True` *)
Wake(task) ==
    /\ tasks[task].pc = "sleep"
    /\ tasks' = [tasks EXCEPT ![task] = [@ EXCEPT !.pc = "idle"]]
    /\ UNCHANGED <<trade_book, trade_logs, now, loss_alerts, last>>

Handler == \E task \in Threads : Handle(task)

Waking == \E task \in Threads : Wake(task)

ThreadNext ==
    \/ ThreadPlaceOrder
    \/ PendingListCycle
    \/ StopLossCycle
    \/ AlertCycle
    \/ Handler
    \/ Waking

(* A started thread keeps being scheduled and time.sleep returns: each step *)
(* of each thread is taken if it stays possible.  Requests may stop coming. *)
ThreadFairness ==
    /\ WF_vars(PendingListCycle)
    /\ WF_vars(StopLossCycle)
    /\ WF_vars(AlertCycle)
    /\ \A task \in Threads : WF_vars(Handle(task)) /\ WF_vars(Wake(task))

ThreadSpec == ThreadInit /\ [][ThreadNext]_vars /\ ThreadFairness

-----------------------------------------------------------------------------
(* Two re-check passes on one store: pending_list_thread runs once in each *)
(* process that runs server.py, and app.run(debug=True) runs the module in *)
(* the reloader's process and in its child.  Each pass takes one store     *)
(* operation at a time; orders are placed in one step.                     *)

Rechecks == {"pending_list", "pending_list_2"}

OverlapFind ==
    \E thread \in Rechecks :
        \E live_data \in SnapshotsOver(InstrumentsOf(trade_logs,
                                                     not_filled_orders(trade_logs))) :
            PendingFindOf(thread, live_data)

OverlapVisit == \E thread \in Rechecks : PendingVisitOf(thread)

OverlapInsert == \E thread \in Rechecks : PendingInsertOf(thread)

OverlapNext == ThreadPlaceOrder \/ OverlapFind \/ OverlapVisit \/ OverlapInsert

OverlapSpec == Init /\ [][OverlapNext]_vars

-----------------------------------------------------------------------------
(* Placing an order *)

(* The last document of a collection *)
Newest(coll) == coll[Len(coll)]

(* coll2 is coll with one document added at the end *)
OneAdded(coll, coll2) ==
    Len(coll2) = Len(coll) + 1 /\ SubSeq(coll2, 1, Len(coll)) = coll

(* C1: a place-order call whose instrument has a snapshot price within 1   *)
(* of the requested price (the boundary 1 included) returns "order         *)
(* placed", adds exactly one trade-book entry and exactly one trade-log    *)
(* record, the record with status "filled", both carrying the request's    *)
(* fields, the stamp as placement and execution time and the snapshot      *)
(* price as execution price.                                               *)
C1_MatchFillsAtSnapshotPrice ==
    Admitted =>
    \A i \in Instruments, p \in OrderPrices, side \in Sides, sl \in StopLosses, t \in Clock :
        \A live_data \in SnapshotsOver({i}) :
            LET h == live_data[i]
                r == place_order_if_price_match(i, p, side, sl, trade_book, trade_logs,
                                                live_data, t)
            IN (h.kind = "num" /\ Abs(h.price - p) <= 1) =>
                 /\ r.status = "order placed"
                 /\ OneAdded(trade_book, r.book)
                 /\ OneAdded(trade_logs, r.logs)
                 /\ Newest(r.logs).status = "filled"
                 /\ \A d \in {Newest(r.book), Newest(r.logs)} :
                        /\ d.instrument_id = i
                        /\ d.order_price = p
                        /\ d.order_side = side
                        /\ d.stop_loss = sl
                        /\ d.order_placement_time = t
                        /\ d.order_execution_time = t
                        /\ d.order_placement_price = h.price

(* An order was filled at placement with the snapshot price exactly 1 away *)
(* from the requested price                                                *)
C1_Witness ==
    /\ last.op = "place_order"
    /\ last.status = "order placed"
    /\ Newest(trade_logs).status = "filled"
    /\ Newest(trade_book).order_placement_price \in FeedPrices
    /\ Abs(Newest(trade_book).order_placement_price - Newest(trade_book).order_price) = 1

(* C2: a place-order call whose instrument has a snapshot price more than  *)
(* 1 away from the requested price leaves the trade-book unchanged and     *)
(* adds exactly one trade-log record, with status "price not matched" and  *)
(* no execution timestamp.                                                 *)
C2_MismatchLogsOnly ==
    Admitted =>
    \A i \in Instruments, p \in OrderPrices, side \in Sides, sl \in StopLosses, t \in Clock :
        \A live_data \in SnapshotsOver({i}) :
            LET h == live_data[i]
                r == place_order_if_price_match(i, p, side, sl, trade_book, trade_logs,
                                                live_data, t)
            IN (h.kind = "num" /\ Abs(h.price - p) > 1) =>
                 /\ r.book = trade_book
                 /\ OneAdded(trade_logs, r.logs)
                 /\ Newest(r.logs).status = "price not matched"
                 /\ Newest(r.logs).order_execution_time = NONE
                 /\ Newest(r.logs).instrument_id = i
                 /\ Newest(r.logs).order_price = p
                 /\ Newest(r.logs).order_side = side
                 /\ Newest(r.logs).order_placement_time = t

(* An order was recorded as "price not matched" with the snapshot price 2  *)
(* away from the requested price, and nothing was added to the trade-book  *)
C2_Witness ==
    /\ last.op = "place_order"
    /\ last.status = "price not matched"
    /\ Newest(trade_logs).status = "price not matched"
    /\ Newest(trade_logs).order_execution_time = NONE
    /\ Newest(trade_logs).order_placement_price \in FeedPrices
    /\ Abs(Newest(trade_logs).order_placement_price - Newest(trade_logs).order_price) = 2
    /\ \A n \in 1..Len(trade_book) : trade_book[n].log_ref # Len(trade_logs)

(* C3: a place-order call whose instrument is absent from the snapshot     *)
(* returns "instrument not found", leaves the trade-book unchanged and     *)
(* adds exactly one trade-log record, with status "not filled" and null    *)
(* execution time and execution price.                                     *)
C3_AbsentLogsNotFilled ==
    Admitted =>
    \A i \in Instruments, p \in OrderPrices, side \in Sides, sl \in StopLosses, t \in Clock :
        \A live_data \in SnapshotsOver({i}) :
            LET r == place_order_if_price_match(i, p, side, sl, trade_book, trade_logs,
                                                live_data, t)
            IN live_data[i].kind = "absent" =>
                 /\ r.status = "instrument not found"
                 /\ r.book = trade_book
                 /\ OneAdded(trade_logs, r.logs)
                 /\ Newest(r.logs).status = "not filled"
                 /\ Newest(r.logs).order_execution_time = NONE
                 /\ Newest(r.logs).order_placement_price = NONE
                 /\ Newest(r.logs).instrument_id = i
                 /\ Newest(r.logs).order_price = p

(* An order for an instrument absent from the snapshot was recorded *)
C3_Witness ==
    /\ last.op = "place_order"
    /\ last.status = "instrument not found"
    /\ Newest(trade_logs).status = "not filled"
    /\ Newest(trade_logs).order_placement_price = NONE
    /\ \A n \in 1..Len(trade_book) : trade_book[n].log_ref # Len(trade_logs)

-----------------------------------------------------------------------------
(* The re-check pass *)

(* The snapshots a re-check pass can tell apart *)
PendingSnapshots ==
    SnapshotsOver(InstrumentsOf(trade_logs, not_filled_orders(trade_logs)))

(* The trade-book entries created for the order recorded at position k of *)
(* the trade-log                                                          *)
EntriesOf(book, k) == {n \in 1..Len(book) : book[n].log_ref = k}

(* C4: no order has more than one trade-book entry, and of two re-check    *)
(* passes run in succession on the same snapshot, with no order placed in  *)
(* between, the second changes neither the trade-book nor the trade-log.   *)
C4_Claim ==
    /\ \A k \in 1..Len(trade_logs) : Cardinality(EntriesOf(trade_book, k)) <= 1
    /\ \A live_data \in PendingSnapshots :
           LET r1 == pending_list_orders(trade_book, trade_logs, live_data, now)
               r2 == pending_list_orders(r1.book, r1.logs, live_data, now)
           IN r2.book = r1.book /\ r2.logs = r1.logs

(* C5: a re-check pass adds no trade-log record, and for every trade-book  *)
(* entry it adds, the order's own trade-log record, "price not matched"    *)
(* before the pass, is "filled" after it, and the record and the entry     *)
(* both carry the price the pass read in the snapshot as execution price.  *)
C5_Claim ==
    [][\A live_data \in PendingSnapshots :
           PendingListWith(live_data) =>
               /\ Len(trade_logs') = Len(trade_logs)
               /\ \A n \in (Len(trade_book) + 1)..Len(trade_book') :
                      LET e == trade_book'[n]
                          live_price == FloatPrice(live_data[e.instrument_id])
                      IN /\ trade_logs[e.log_ref].status = "price not matched"
                         /\ trade_logs'[e.log_ref].status = "filled"
                         /\ trade_logs'[e.log_ref].order_placement_price = live_price
                         /\ e.order_placement_price = live_price]_vars

(* C6: after a re-check pass that ran to its end, no "price not matched"   *)
(* record remains whose instrument has a snapshot price within 1 of the    *)
(* record's requested price.                                               *)
C6_Claim ==
    \A live_data \in PendingSnapshots :
        LET r == pending_list_orders(trade_book, trade_logs, live_data, now)
        IN r.status # "ValueError" =>
             \A k \in 1..Len(r.logs) :
                 r.logs[k].status = "price not matched" =>
                     ~(/\ live_data[r.logs[k].instrument_id].kind = "num"
                       /\ Abs(live_data[r.logs[k].instrument_id].price
                              - r.logs[k].order_price) <= 1)

-----------------------------------------------------------------------------
(* The stop-loss monitor *)

(* The snapshots a stop-loss cycle can tell apart *)
StopLossSnapshots ==
    SnapshotsOver(InstrumentsOf(trade_book, stop_loss_orders(trade_book)))

(* C7 as the code has it: stop_loss is a price level, not a distance from  *)
(* the execution price.  A cycle visits the trade-book entries that carry  *)
(* a stop_loss in trade-book order, skipping those whose instrument is     *)
(* absent from the snapshot; it triggers for the first one whose live      *)
(* price (0 when the hash has no price field) is at or below its           *)
(* stop_loss, the boundary included, whatever its execution price, unless  *)
(* a non-numeric price is met first, which ends the cycle; it triggers for *)
(* no entry whose live price is above its stop_loss.                       *)
C7_TriggersAtOrBelowStopLevel ==
    \A live_data \in StopLossSnapshots :
        LET r == implement_stop_loss(trade_book, trade_logs, live_data, now + 1)
            Read(k) == live_data[trade_book[k].instrument_id]
            Price(k) == IF Read(k).kind = "num" THEN Read(k).price ELSE 0
            stops == {k \in 1..Len(trade_book) :
                        /\ trade_book[k].stop_loss # NONE
                        /\ \/ Read(k).kind = "badprice"
                           \/ /\ Read(k).kind \in {"num", "noprice"}
                              /\ Price(k) <= trade_book[k].stop_loss}
        IN IF stops = {} \/ Read(Min(stops)).kind = "badprice"
           THEN /\ r.status # "stop loss triggered"
                /\ r.book = trade_book
                /\ r.logs = trade_logs
           ELSE /\ r.status = "stop loss triggered"
                /\ r.hit = Min(stops)
                /\ Newest(r.book).reason = "stop loss triggered"
                /\ Newest(r.book).instrument_id = trade_book[Min(stops)].instrument_id
                /\ Newest(r.book).order_price = Price(Min(stops))

(* A cycle triggered with the live price equal to the stop_loss of the    *)
(* entry, which had been executed at a price above it                     *)
C7_Witness ==
    /\ last.op = "stop_loss"
    /\ last.status = "stop loss triggered"
    /\ Newest(trade_book).reason = "stop loss triggered"
    /\ \E k \in 1..Len(trade_logs) :
           /\ trade_logs[k].status = "stop loss triggered"
           /\ trade_logs[k].stop_loss = Newest(trade_book).order_price
           /\ trade_logs[k].instrument_id = Newest(trade_book).instrument_id
           /\ trade_logs[k].order_placement_price > trade_logs[k].stop_loss

(* C7: the monitor triggers for the first entry that carries a stop_loss d *)
(* exactly when the live price of its instrument is within d of the        *)
(* entry's order_placement_price.                                          *)
C7_Claim ==
    \A live_data \in StopLossSnapshots :
        LET r == implement_stop_loss(trade_book, trade_logs, live_data, now + 1)
            first == stop_loss_orders(trade_book)[1]
            e == trade_book[first]
        IN (stop_loss_orders(trade_book) # <<>> /\ live_data[e.instrument_id].kind = "num") =>
             ((r.status = "stop loss triggered" /\ r.hit = first)
                <=> Abs(live_data[e.instrument_id].price - e.order_placement_price)
                      <= e.stop_loss)

(* C8: when a cycle triggers for an entry, the trade-book after the cycle  *)
(* is the trade-book before it with that entry removed and one sell at the *)
(* live price read, with reason "stop loss triggered", added, and the      *)
(* trade-log record of that entry's order has status "stop loss           *)
(* triggered".                                                             *)
C8_Claim ==
    [][\A live_data \in StopLossSnapshots :
           LET r == implement_stop_loss(trade_book, trade_logs, live_data, now + 1)
               e == trade_book[r.hit]
           IN (StopLossWith(now + 1, live_data) /\ r.status = "stop loss triggered") =>
                /\ trade_book' = Append(RemoveAt(trade_book, r.hit), Newest(trade_book'))
                /\ Newest(trade_book').instrument_id = e.instrument_id
                /\ Newest(trade_book').order_side = "sell"
                /\ Newest(trade_book').reason = "stop loss triggered"
                /\ Newest(trade_book').order_price = FloatPrice(live_data[e.instrument_id])
                /\ trade_logs'[e.log_ref].status = "stop loss triggered"]_vars

-----------------------------------------------------------------------------
(* Square-off *)

(* C9: square-off of an instrument that has a trade-book entry and a       *)
(* numeric snapshot price returns "square off order placed" with the order *)
(* it added, and adds exactly one document to the trade-book and one to    *)
(* the trade-log, the latter with status "filled": a sell of that          *)
(* instrument at the snapshot price whose placement and execution          *)
(* timestamps are the same.                                                *)
C9_SquareOffAddsOneSell ==
    \A i \in Instruments :
        \A live_data \in SnapshotsOver({i}) :
            LET r == square_off(i, trade_book, trade_logs, live_data, now + 1)
            IN (EntriesFor(trade_book, i) # {} /\ live_data[i].kind = "num") =>
                 /\ r.status = "square off order placed"
                 /\ OneAdded(trade_book, r.book)
                 /\ OneAdded(trade_logs, r.logs)
                 /\ r.order = Newest(r.book)
                 /\ Newest(r.logs).status = "filled"
                 /\ \A d \in {Newest(r.book), Newest(r.logs)} :
                        /\ d.instrument_id = i
                        /\ d.order_side = "sell"
                        /\ d.order_price = live_data[i].price
                        /\ d.order_placement_price = live_data[i].price
                        /\ d.order_placement_time = now + 1
                        /\ d.order_execution_time = d.order_placement_time

(* A square-off added a sell to a trade-book that held an entry of the *)
(* instrument                                                          *)
C9_Witness ==
    /\ last.op = "square_off"
    /\ last.status = "square off order placed"
    /\ Cardinality(EntriesFor(trade_book, Newest(trade_book).instrument_id)) >= 2
    /\ Newest(trade_book).order_side = "sell"
    /\ Newest(trade_book).order_price \in FeedPrices
    /\ Newest(trade_book).order_execution_time = Newest(trade_book).order_placement_time
    /\ Newest(trade_logs).status = "filled"
    /\ Newest(trade_logs).order_placement_time = Newest(trade_book).order_placement_time

(* C10: after a successful square-off of an instrument, the FIFO queues   *)
(* built from the resulting trade-book hold no open long lot and no open   *)
(* short lot for that instrument.                                          *)
C10_Claim ==
    (last.op = "square_off" /\ last.status = "square off order placed") =>
        LET i == Newest(trade_book).instrument_id
        IN /\ open_lots(trade_book, i).long_queue = <<>>
           /\ open_lots(trade_book, i).short_queue = <<>>

-----------------------------------------------------------------------------
(* Trade-book and trade-log together *)

(* C11: every trade-book entry has a trade-log record with the same        *)
(* instrument and the same placement timestamp; in particular the sell a   *)
(* stop-loss trigger inserts.                                              *)
C11_Claim ==
    \A n \in 1..Len(trade_book) :
        \E k \in 1..Len(trade_logs) :
            /\ trade_logs[k].instrument_id = trade_book[n].instrument_id
            /\ trade_logs[k].order_placement_time = trade_book[n].order_placement_time

(* C12: square-off writes only when it places the sell.  For an         *)
(* instrument without a trade-book entry it returns "no open position     *)
(* found to square off"; for one with entries but absent from the snapshot *)
(* it returns "instrument not found in live data"; whenever it does not    *)
(* return "square off order placed" the trade-book and the trade-log are   *)
(* as they were.                                                           *)
C12_SquareOffWritesOnlyOnSell ==
    \A i \in Instruments :
        \A live_data \in SnapshotsOver({i}) :
            LET r == square_off(i, trade_book, trade_logs, live_data, now + 1)
            IN /\ EntriesFor(trade_book, i) = {} =>
                      r.status = "no open position found to square off"
               /\ (EntriesFor(trade_book, i) # {} /\ live_data[i].kind = "absent") =>
                      r.status = "instrument not found in live data"
               /\ r.status # "square off order placed" =>
                      (r.book = trade_book /\ r.logs = trade_logs)

(* A trade-book with an entry of one instrument and none of the other:    *)
(* square-off of the first on a snapshot without it, and square-off of the *)
(* second, both return their report and leave the store as it is          *)
C12_Witness ==
    \E i, j \in Instruments :
        LET absent == [x \in Instruments |-> [kind |-> "absent", price |-> 0]]
            ri == square_off(i, trade_book, trade_logs, absent, now + 1)
            rj == square_off(j, trade_book, trade_logs, absent, now + 1)
        IN /\ EntriesFor(trade_book, i) # {}
           /\ EntriesFor(trade_book, j) = {}
           /\ ri.status = "instrument not found in live data"
           /\ rj.status = "no open position found to square off"
           /\ ri.book = trade_book /\ ri.logs = trade_logs
           /\ rj.book = trade_book /\ rj.logs = trade_logs

-----------------------------------------------------------------------------
(* The FIFO engine against matching unit by unit *)

(* The snapshot without any hash *)
NoFeed == [i \in Instruments |-> [kind |-> "absent", price |-> 0]]

(* The positions of the trades in chronological order: by placement time, *)
(* trades of equal time in store order                                    *)
RECURSIVE Chronological(_, _)
Chronological(trades, S) ==
    IF S = {} THEN <<>>
    ELSE LET n == CHOOSE a \in S : \A b \in S :
                      \/ trades[a].order_placed_time < trades[b].order_placed_time
                      \/ /\ trades[a].order_placed_time = trades[b].order_placed_time
                         /\ a <= b
         IN <<trades[n]>> \o Chronological(trades, S \ {n})

(* q copies of x *)
Copies(x, q) == [n \in 1..q |-> x]

(* A queue of lots as the entry prices of its units *)
RECURSIVE Units(_)
Units(queue) ==
    IF queue = <<>> THEN <<>>
    ELSE Copies(Head(queue).entry_price, Head(queue).qty) \o Units(Tail(queue))

(* One unit bought or sold at price: it closes the oldest open unit of the *)
(* opposite side, or opens one                                             *)
UnitStep(u, side, price) ==
    IF side = "buy"
    THEN IF u.short # <<>>
         THEN [u EXCEPT !.short = Tail(u.short),
                        !.realized = u.realized + (Head(u.short) - price)]
         ELSE [u EXCEPT !.long = Append(u.long, price)]
    ELSE IF u.long # <<>>
         THEN [u EXCEPT !.long = Tail(u.long),
                        !.realized = u.realized + (price - Head(u.long))]
         ELSE [u EXCEPT !.short = Append(u.short, price)]

RECURSIVE UnitSteps(_, _, _, _)
UnitSteps(u, side, price, q) ==
    IF q = 0 THEN u ELSE UnitSteps(UnitStep(u, side, price), side, price, q - 1)

RECURSIVE UnitMatch(_, _)
UnitMatch(u, trades) ==
    IF trades = <<>> THEN u
    ELSE UnitMatch(UnitSteps(u, Head(trades).order_side, Head(trades).order_price,
                             Head(trades).quantity),
                   Tail(trades))

(* The reference result for the trades of an instrument *)
Reference(book, i) ==
    UnitMatch([long |-> <<>>, short |-> <<>>, realized |-> 0],
              Chronological(trades_by_instrument(book, i),
                            1..Len(trades_by_instrument(book, i))))

(* The instruments of the trade-book *)
Traded(book) == {book[n].instrument_id : n \in 1..Len(book)}

(* C13: for the trades of every instrument, taken in chronological order,  *)
(* the realized PnL of the summary, and the queues of open lots read unit  *)
(* by unit, are those of matching each unit bought against the oldest open *)
(* unit sold, booking (short entry price - buy price), and each unit sold  *)
(* against the oldest open unit bought, booking (sell price - long entry   *)
(* price), an unmatched unit opening a lot on its own side.                *)
C13_EngineMatchesReference ==
    last.op = "get_mtm" =>
        \A live_data \in PnlSnapshots :
            LET response == calculate_mtm_pnl(trade_book, live_data)
            IN /\ response.status = "ok"
               /\ \A i \in Traded(trade_book) :
                      /\ response.results[i].realized_pnl = Reference(trade_book, i).realized
                      /\ Units(response.results[i].open_long_positions)
                           = Reference(trade_book, i).long
                      /\ Units(response.results[i].open_short_positions)
                           = Reference(trade_book, i).short

(* get-PnL answered on a trade-book in which an instrument has a realized *)
(* gain or loss and an open lot left, the earlier trade stored later      *)
C13_Witness ==
    /\ last.op = "get_mtm"
    /\ last.status = "ok"
    /\ \E i \in Traded(trade_book) :
           LET result == calculate_mtm_pnl(trade_book, NoFeed).results[i]
               trades == trades_by_instrument(trade_book, i)
           IN /\ result.realized_pnl # 0
              /\ result.open_long_positions \o result.open_short_positions # <<>>
              /\ \E a, b \in 1..Len(trades) :
                     a < b /\ trades[a].order_placed_time > trades[b].order_placed_time

-----------------------------------------------------------------------------
(* Flat positions *)

(* The quantity the trades of one side add up to *)
RECURSIVE Cumulative(_, _)
Cumulative(trades, side) ==
    IF trades = <<>> THEN 0
    ELSE (IF Head(trades).order_side = side THEN Head(trades).quantity ELSE 0)
         + Cumulative(Tail(trades), side)

(* The trades of an instrument in chronological order *)
InTime(book, i) ==
    Chronological(trades_by_instrument(book, i), 1..Len(trades_by_instrument(book, i)))

(* The trades are a buy of a quantity and then a sell of the same quantity *)
BuyThenSell(trades) ==
    /\ Len(trades) = 2
    /\ trades[1].order_side = "buy"
    /\ trades[2].order_side = "sell"
    /\ trades[1].quantity = trades[2].quantity

(* C14: an instrument whose buys and sells add up to the same quantity has *)
(* no open lot left, long or short; and when its trades are a buy of q at  *)
(* p followed by a sell of q at s, its realized PnL is (s - p) * q.        *)
C14_FlatLeavesNoLots ==
    last.op = "get_mtm" =>
        \A live_data \in PnlSnapshots : \A i \in Traded(trade_book) :
            LET result == calculate_mtm_pnl(trade_book, live_data).results[i]
                trades == InTime(trade_book, i)
            IN /\ Cumulative(trades, "buy") = Cumulative(trades, "sell") =>
                      /\ result.open_long_positions = <<>>
                      /\ result.open_short_positions = <<>>
               /\ BuyThenSell(trades) =>
                      result.realized_pnl
                        = (trades[2].order_price - trades[1].order_price) * trades[1].quantity

(* get-PnL answered when an instrument has a buy of 2 and then a sell of 2 *)
(* at another price                                                        *)
C14_Witness ==
    /\ last.op = "get_mtm"
    /\ last.status = "ok"
    /\ \E i \in Traded(trade_book) :
           /\ BuyThenSell(InTime(trade_book, i))
           /\ InTime(trade_book, i)[1].quantity = 2
           /\ InTime(trade_book, i)[1].order_price # InTime(trade_book, i)[2].order_price

(* get-PnL answered when an instrument is flat after three trades *)
C14_WitnessThree ==
    /\ last.op = "get_mtm"
    /\ \E i \in Traded(trade_book) :
           /\ Len(InTime(trade_book, i)) = 3
           /\ Cumulative(InTime(trade_book, i), "buy") = Cumulative(InTime(trade_book, i), "sell")

-----------------------------------------------------------------------------
(* A trade smaller than the head lot *)

(* The trades of an instrument in the order the engine takes them *)
Sorted(book, i) == sort_stable(<<>>, trades_by_instrument(book, i))

(* The engine's state before the k-th trade *)
Before(trades, k) ==
    fifo_match([long_queue |-> <<>>, short_queue |-> <<>>, realized_pnl |-> 0],
               SubSeq(trades, 1, k - 1))

(* The queue a trade is matched against, and the queue of its own side *)
Opposite(st, side) == IF side = "buy" THEN st.short_queue ELSE st.long_queue
Own(st, side) == IF side = "buy" THEN st.long_queue ELSE st.short_queue

(* The k-th trade meets a head lot larger than itself *)
Partial(trades, k) ==
    /\ Opposite(Before(trades, k), trades[k].order_side) # <<>>
    /\ trades[k].quantity < Head(Opposite(Before(trades, k), trades[k].order_side)).qty

(* C15: a trade that takes only part of the head lot of the opposite queue *)
(* leaves that lot at the head with its entry price and its qty less the   *)
(* matched amount, leaves the lots behind it and the queue of its own side *)
(* as they were, and adds to realized PnL the price difference (sell price *)
(* - long entry, or short entry - buy price) times the matched amount.     *)
C15_PartialFillKeepsHeadLot ==
    last.op = "get_mtm" =>
        \A i \in Traded(trade_book) :
            LET trades == Sorted(trade_book, i)
            IN \A k \in 1..Len(trades) :
                   LET side == trades[k].order_side
                       before == Before(trades, k)
                       after == fifo_trade(before, trades[k])
                       lot == Head(Opposite(before, side))
                       matched == trades[k].quantity
                   IN Partial(trades, k) =>
                          /\ Opposite(after, side)
                               = <<[entry_price |-> lot.entry_price,
                                    qty |-> lot.qty - matched]>>
                                 \o Tail(Opposite(before, side))
                          /\ Own(after, side) = Own(before, side)
                          /\ after.realized_pnl
                               = before.realized_pnl
                                 + (IF side = "sell"
                                    THEN (trades[k].order_price - lot.entry_price) * matched
                                    ELSE (lot.entry_price - trades[k].order_price) * matched)
                          /\ k = Len(trades) =>
                                 LET result == calculate_mtm_pnl(trade_book, NoFeed).results[i]
                                 IN /\ result.open_long_positions = after.long_queue
                                    /\ result.open_short_positions = after.short_queue
                                    /\ result.realized_pnl = after.realized_pnl

(* get-PnL answered when the last trade of an instrument took part of the *)
(* head lot at another price, a second lot standing behind it             *)
C15_Witness ==
    /\ last.op = "get_mtm"
    /\ last.status = "ok"
    /\ \E i \in Traded(trade_book) :
           LET trades == Sorted(trade_book, i)
               k == Len(trades)
           IN /\ Partial(trades, k)
              /\ Len(Opposite(Before(trades, k), trades[k].order_side)) = 2
              /\ trades[k].order_price
                   # Head(Opposite(Before(trades, k), trades[k].order_side)).entry_price

-----------------------------------------------------------------------------
(* Unrealized PnL *)

(* The snapshot holds a price for the instrument *)
HasLivePrice(live_data, i) == live_data[i].kind = "num"

(* (live - entry) * qty over long lots, (entry - live) * qty over short lots *)
LotsAtLive(result, live) ==
    sum_over(1..Len(result.open_long_positions),
             [n \in 1..Len(result.open_long_positions) |->
                 (live - result.open_long_positions[n].entry_price)
                 * result.open_long_positions[n].qty])
    + sum_over(1..Len(result.open_short_positions),
               [n \in 1..Len(result.open_short_positions) |->
                   (result.open_short_positions[n].entry_price - live)
                   * result.open_short_positions[n].qty])

(* C16: for each instrument, unrealized PnL is null exactly when the       *)
(* snapshot holds no price for it, and otherwise is the sum over the long  *)
(* lots left of (live - entry) * qty plus the sum over the short lots left *)
(* of (entry - live) * qty; the total unrealized PnL is the sum over the   *)
(* instruments whose unrealized PnL is not null.                           *)
C16_UnrealizedNullWithoutLivePrice ==
    last.op = "get_mtm" =>
        \A live_data \in PnlSnapshots :
            LET response == calculate_mtm_pnl(trade_book, live_data)
                known == {i \in Traded(trade_book) :
                             response.results[i].unrealized_pnl # Null}
            IN /\ \A i \in Traded(trade_book) :
                      /\ response.results[i].unrealized_pnl = Null
                           <=> ~HasLivePrice(live_data, i)
                      /\ HasLivePrice(live_data, i) =>
                             response.results[i].unrealized_pnl
                               = <<LotsAtLive(response.results[i], live_data[i].price)>>
               /\ response.total_unrealized_pnl
                    = sum_over(known, [i \in known |-> response.results[i].unrealized_pnl[1]])

(* get-PnL answered when both instruments have an open lot, one long and   *)
(* one short, so that a snapshot pricing only one of them gives one null   *)
(* and one non-zero unrealized PnL                                         *)
C16_Witness ==
    /\ last.op = "get_mtm"
    /\ last.status = "ok"
    /\ \E live_data \in PnlSnapshots : \E i, j \in Traded(trade_book) :
           LET response == calculate_mtm_pnl(trade_book, live_data)
           IN /\ HasLivePrice(live_data, i)
              /\ live_data[j].kind \in {"absent", "noprice", "badprice"}
              /\ response.results[i].open_long_positions # <<>>
              /\ response.results[j].open_short_positions # <<>>
              /\ response.results[i].unrealized_pnl \notin {Null, <<0>>}
              /\ response.results[j].unrealized_pnl = Null
              /\ response.total_unrealized_pnl # 0

-----------------------------------------------------------------------------
(* MTM PnL *)

(* C17: for each instrument the reported MTM PnL is a number, realized PnL *)
(* plus unrealized PnL, the latter counted as 0 when it is null; without a *)
(* live price MTM PnL is therefore realized PnL, and unrealized PnL is     *)
(* still null.                                                             *)
C17_Claim ==
    last.op = "get_mtm" =>
        \A live_data \in PnlSnapshots : \A i \in Traded(trade_book) :
            LET result == calculate_mtm_pnl(trade_book, live_data).results[i]
            IN /\ result.mtm_pnl
                    = <<result.realized_pnl
                        + (IF result.unrealized_pnl = Null THEN 0
                           ELSE result.unrealized_pnl[1])>>
               /\ ~HasLivePrice(live_data, i) =>
                      /\ result.mtm_pnl = <<result.realized_pnl>>
                      /\ result.unrealized_pnl = Null

-----------------------------------------------------------------------------
(* Loss alerts *)

(* C18: a trade whose loss is over the threshold in two or more scans in a *)
(* row, run by the alert task or by get-alerts, has exactly one record in  *)
(* the alert log: no two lines of the log carry the same trade id.         *)
C18_Claim ==
    \A a, b \in 1..Len(loss_alerts) :
        loss_alerts[a].trade_id = loss_alerts[b].trade_id => a = b

(* The record is one a scan alerts: its instrument has a live price, its   *)
(* side is buy or sell, its id is not alerted yet, and its loss in percent *)
(* of the order price is above the threshold                               *)
Qualifies(trade, market_data, alerted_ids) ==
    /\ market_data[trade.instrument_id].kind = "num"
    /\ trade.order_side \in {"buy", "sell"}
    /\ ToString(trade._id) \notin alerted_ids
    /\ trade.order_price # 0
    /\ LET current == market_data[trade.instrument_id].price
           loss == IF trade.order_side = "buy" THEN trade.order_price - current
                   ELSE current - trade.order_price
       IN loss * 100 > threshold_pct * trade.order_price

(* The ids of the lines a scan appended to the log *)
Emitted(log, r) == {r.log[n].trade_id : n \in Len(log) + 1..Len(r.log)}

(* C19: a scan emits an alert for a record of the trade-book if and only   *)
(* if its instrument has a live price, its side is buy or sell, its id is  *)
(* not already alerted, and its loss percentage, (order price - current    *)
(* price) / order price * 100 for a buy and (current price - order price)  *)
(* / order price * 100 for a sell, is strictly above the threshold of 1.0; *)
(* a loss equal to the threshold emits nothing.                            *)
C19_Claim ==
    \A market_data \in AlertSnapshots :
        \A alerted_ids \in SUBSET {ToString(trade_book[n]._id) : n \in 1..Len(trade_book)} :
            LET r == check_trade_losses(trade_book, market_data, threshold_pct,
                                        Some(alerted_ids), loss_alerts)
            IN \A n \in 1..Len(trade_book) :
                   ToString(trade_book[n]._id) \in Emitted(loss_alerts, r)
                     <=> Qualifies(trade_book[n], market_data, alerted_ids)

(* C20: an alerted trade id is never retracted: every later scan result    *)
(* and every later get-alerts response contains every id that has a record *)
(* in the alert log, also after the loss has recovered.                    *)
C20_Claim ==
    (last.op \in {"alert_thread", "get_alerts"} /\ last.status = "ok") =>
        \A n \in 1..Len(loss_alerts) : loss_alerts[n].trade_id \in last.response

-----------------------------------------------------------------------------
(* Invariants of the trade-log *)

(* C21: in every reachable state every trade-log record has its execution  *)
(* timestamp and its execution price both set or both null, whatever its   *)
(* status.                                                                 *)
C21_Claim ==
    \A k \in 1..Len(trade_logs) :
        trade_logs[k].order_execution_time = NONE
          <=> trade_logs[k].order_placement_price = NONE

(* The moves of a status the claim allows *)
Forward == {<<"price not matched", "filled">>, <<"filled", "stop loss triggered">>}

(* C22: the status of a trade-log record only moves forward: an operation  *)
(* leaves it as it is, or takes it from `price not matched` to `filled` or *)
(* from `filled` to `stop loss triggered`; no record returns to `price not *)
(* matched`, and none goes from `price not matched` straight to `stop loss *)
(* triggered`.                                                             *)
C22_Claim ==
    [][\A k \in 1..Len(trade_logs) :
          \/ trade_logs'[k].status = trade_logs[k].status
          \/ <<trade_logs[k].status, trade_logs'[k].status>> \in Forward]_vars

-----------------------------------------------------------------------------
(* A feed with malformed entries *)

(* The hash gives no price: its price field is missing or is no number *)
Malformed(h) == h.kind \in {"noprice", "badprice"}

(* C25: a place-order call whose instrument has a hash with a missing or   *)
(* non-numeric price is handled as if the instrument were absent: it       *)
(* returns "instrument not found", leaves the trade-book unchanged and     *)
(* adds one trade-log record with status "not filled" and null execution   *)
(* time and execution price; the order is never filled, nor compared with  *)
(* a price put in the place of the missing one.                            *)
C25_Claim ==
    Admitted =>
    \A i \in Instruments, p \in OrderPrices, side \in Sides, sl \in StopLosses, t \in Clock :
        \A live_data \in SnapshotsOver({i}) :
            LET r == place_order_if_price_match(i, p, side, sl, trade_book, trade_logs,
                                                live_data, t)
            IN Malformed(live_data[i]) =>
                 /\ r.status = "instrument not found"
                 /\ r.book = trade_book
                 /\ OneAdded(trade_logs, r.logs)
                 /\ Newest(r.logs).status = "not filled"
                 /\ Newest(r.logs).order_execution_time = NONE
                 /\ Newest(r.logs).order_placement_price = NONE

(* No two documents of the collection have the same instrument and the *)
(* same placement time                                                  *)
KeysDistinct(coll) ==
    \A a, b \in 1..Len(coll) :
        (/\ coll[a].instrument_id = coll[b].instrument_id
         /\ coll[a].order_placement_time = coll[b].order_placement_time) => a = b

(* The lookup of the instrument's price fails: no hash, or a malformed one *)
LookupFails(live_data, i) == live_data[i].kind # "num"

(* C26: in a re-check pass, a snapshot lookup that fails for an instrument *)
(* (no hash, or a price missing or non-numeric) only skips the orders of   *)
(* that instrument: the pass does not fail, the records of that instrument *)
(* stay as they are, and every `price not matched` order of another        *)
(* instrument whose snapshot price is within 1 of its price is filled,     *)
(* whether retrieved before or after the failing one.                      *)
C26_Claim ==
    \A live_data \in PendingSnapshots :
        LET r == pending_list_orders(trade_book, trade_logs, live_data, now)
        IN KeysDistinct(trade_logs) =>
             /\ r.status # "ValueError"
             /\ \A k \in 1..Len(trade_logs) :
                    trade_logs[k].status = "price not matched" =>
                        IF LookupFails(live_data, trade_logs[k].instrument_id)
                        THEN r.logs[k] = trade_logs[k]
                        ELSE Abs(live_data[trade_logs[k].instrument_id].price
                                 - trade_logs[k].order_price) <= 1
                               => r.logs[k].status = "filled"

-----------------------------------------------------------------------------
(* One trigger per cycle *)

(* The entries that meet the trigger condition under the snapshot: they   *)
(* carry a stop_loss, and the price read for their instrument (0 when the *)
(* hash has no price field) is at or below it                             *)
Triggering(book, live_data) ==
    {k \in 1..Len(book) :
        /\ book[k].stop_loss # NONE
        /\ live_data[book[k].instrument_id].kind \in {"num", "noprice"}
        /\ FloatPrice(live_data[book[k].instrument_id]) <= book[k].stop_loss}

(* C28: one cycle of the stop-loss monitor handles at most one trigger: it *)
(* returns at the first entry, in retrieval order, that meets the trigger  *)
(* condition, so the cycle removes one trade-book entry and adds one       *)
(* forced sell, or changes nothing; every other entry that meets the       *)
(* condition too is still in the trade-book after the cycle.               *)
C28_OneTriggerPerCycle ==
    \A live_data \in StopLossSnapshots :
        LET r == implement_stop_loss(trade_book, trade_logs, live_data, now + 1)
            others == Triggering(trade_book, live_data) \ {r.hit}
        IN IF r.status = "stop loss triggered"
           THEN /\ r.hit = Min(Triggering(trade_book, live_data))
                /\ \E j \in 1..Len(trade_book) \ others :
                       r.book = Append(RemoveAt(trade_book, j), Newest(r.book))
                /\ Newest(r.book).reason = "stop loss triggered"
                /\ Len(r.logs) = Len(trade_logs)
           ELSE /\ r.book = trade_book
                /\ r.logs = trade_logs

(* A cycle triggered for one entry and left in the trade-book another      *)
(* entry of the same instrument whose stop_loss is at or above the price   *)
(* the cycle read                                                          *)
C28_Witness ==
    /\ last.op = "stop_loss"
    /\ last.status = "stop loss triggered"
    /\ Newest(trade_book).reason = "stop loss triggered"
    /\ \E n \in 1..Len(trade_book) - 1 :
           /\ trade_book[n].stop_loss # NONE
           /\ trade_book[n].instrument_id = Newest(trade_book).instrument_id
           /\ Newest(trade_book).order_price <= trade_book[n].stop_loss

-----------------------------------------------------------------------------
(* get-PnL on the trade-book of the order engine *)

(* C29: for every trade-book written by place-order, re-check, square-off  *)
(* and stop-loss, get-PnL returns a summary, the trades of each instrument *)
(* having been put in ascending order of placement time (trades of equal   *)
(* time in store order): the sort finds its key in every entry and the     *)
(* call answers with the summary.                                          *)
C29_Claim ==
    \A live_data \in SnapshotsOver(Traded(trade_book)) :
        /\ \A i \in Traded(trade_book) : ~sort_raises(trades_by_instrument(trade_book, i))
        /\ calculate_mtm_pnl(trade_book, live_data).status = "ok"

-----------------------------------------------------------------------------
(* The engines that only read the store *)

(* C30: a step in which the PnL summary is computed changes neither the   *)
(* trade-book nor the trade-log, nor the alert log; a step in which a     *)
(* loss-alert scan runs changes neither the trade-book nor the trade-log, *)
(* and the alert log only by lines added at its end.                      *)
C30_EnginesOnlyRead ==
    [][/\ last'.op = "get_mtm" =>
              /\ trade_book' = trade_book
              /\ trade_logs' = trade_logs
              /\ loss_alerts' = loss_alerts
       /\ last'.op \in {"alert_thread", "get_alerts"} =>
              /\ trade_book' = trade_book
              /\ trade_logs' = trade_logs
              /\ Len(loss_alerts') >= Len(loss_alerts)
              /\ SubSeq(loss_alerts', 1, Len(loss_alerts)) = loss_alerts]_vars

(* The PnL summary was computed, after a scan had written an alert, on a   *)
(* trade-book whose documents are not stored in order of placement time    *)
C30_Witness ==
    /\ last.op = "get_mtm"
    /\ last.status = "ok"
    /\ loss_alerts # <<>>
    /\ Len(trade_logs) = 2
    /\ Len(trade_book) = 2
    /\ trade_book[1].order_placed_time > trade_book[2].order_placed_time

-----------------------------------------------------------------------------
(* The store between two store operations *)

(* The documents of coll with the instrument and placement time of doc *)
SameKey(coll, doc) ==
    {n \in 1..Len(coll) :
        /\ coll[n].instrument_id = doc.instrument_id
        /\ coll[n].order_placement_time = doc.order_placement_time}

(* The forced sells of the trade-book *)
ForcedSells(book) == {n \in 1..Len(book) : book[n].reason = "stop loss triggered"}

(* Every filled trade-log record has its trade-book entry, and every *)
(* trade-book entry its filled trade-log record                      *)
FillsPaired(book, logs) ==
    /\ \A k \in 1..Len(logs) :
           logs[k].status = "filled" => SameKey(book, logs[k]) # {}
    /\ \A n \in 1..Len(book) :
           \E k \in SameKey(logs, book[n]) : logs[k].status = "filled"

(* C23: the move of a record to `filled` and the insert of its trade-book  *)
(* entry are never seen apart: in every state another task (or a restart   *)
(* after a crash) can see between two store operations of a place-order or *)
(* of a re-check, every filled trade-log record has its trade-book entry   *)
(* and every trade-book entry its filled trade-log record.  States the     *)
(* stop-loss monitor has written to are left aside.                        *)
C23_Claim ==
    (~Running("stop_loss") /\ ForcedSells(trade_book) = {}) =>
        FillsPaired(trade_book, trade_logs)

(* No call is between two of its store operations *)
Quiescent == \A task \in Tasks : ~Running(task)

(* C24: only one task changes an order at a time: however the stop-loss    *)
(* monitor interleaves with a place-order or a re-check on the same order, *)
(* once all calls have returned no order is `filled` in the trade-log with *)
(* its trade-book entry removed, and there is one forced sell for each     *)
(* record with status `stop loss triggered`.                               *)
C24_Claim ==
    Quiescent =>
        /\ \A k \in 1..Len(trade_logs) :
               trade_logs[k].status = "filled" => SameKey(trade_book, trade_logs[k]) # {}
        /\ Cardinality(ForcedSells(trade_book))
             = Cardinality({k \in 1..Len(trade_logs) :
                               trade_logs[k].status = "stop loss triggered"})

(* C27: no background thread ends because its operation raised: a thread *)
(* is never dead, and whenever a cycle of a thread has raised (and the   *)
(* thread has cycles left within MaxCycles) the thread makes its next    *)
(* call.                                                                 *)
C27_ThreadsSurviveErrors ==
    /\ [](\A task \in Threads : tasks[task].pc # "dead")
    /\ \A task \in Threads : \A n \in 1..(MaxCycles - 1) :
           (tasks[task].pc = "except" /\ tasks[task].cycles = n)
               ~> (tasks[task].cycles = n + 1)

(* Each of the three threads has made a call after one of its calls raised *)
C27_Witness ==
    \A task \in Threads :
        tasks[task].raised > 0 /\ tasks[task].cycles > tasks[task].raised

-----------------------------------------------------------------------------
(* The answer of POST /place_order *)

(* Every response answered 201 *)
make_trade_Created(response) == 201

(* make_trade: `return jsonify(response), 201` when the status of the     *)
(* response is "order placed", abort(400, ...) otherwise                  *)
make_trade(response) == IF response.status = "order placed" THEN 201 ELSE 400

Success(code) == code \in 200..299

ClientError(code) == code \in 400..499

(* C31: POST /place_order answers with a success code exactly when the    *)
(* status of the order result is "order placed"; a result with status     *)
(* "price not matched" or "instrument not found" is answered with a 4xx   *)
(* code, and the result has no other status.                              *)
C31_SuccessIffOrderPlaced ==
    Admitted =>
    \A i \in Instruments, p \in OrderPrices, side \in Sides, sl \in StopLosses, t \in Clock :
        \A live_data \in SnapshotsOver({i}) :
            LET r == place_order_if_price_match(i, p, side, sl, trade_book, trade_logs,
                                                live_data, t)
            IN /\ r.status \in {"order placed", "price not matched", "instrument not found"}
               /\ Success(make_trade(r)) <=> r.status = "order placed"
               /\ r.status \in {"price not matched", "instrument not found"}
                    => ClientError(make_trade(r))

(* A place-order answered 201 was followed by one answered 400 *)
C31_Witness ==
    /\ last.op = "place_order"
    /\ make_trade(last) = 400
    /\ Len(trade_logs) = 2
    /\ trade_logs[1].status = "filled"
    /\ trade_logs[2].status \in {"price not matched", "not filled"}

-----------------------------------------------------------------------------
(* The FIFO queues at every point of the computation *)

(* The locals of the get-PnL call *)
Fifo == tasks["get_mtm"]

(* The trades the loop has finished *)
Processed == SubSeq(trade_book, 1, Fifo.k)

(* C32: at every point of the FIFO computation (between two trades and    *)
(* between two iterations of a while loop), for every sequence of trades  *)
(* with quantities 0, 1 and 2, every lot in the long queue and in the     *)
(* short queue has a quantity above 0.                                    *)
C32_LotsArePositive ==
    /\ \A n \in 1..Len(Fifo.long_queue) : Fifo.long_queue[n].qty > 0
    /\ \A n \in 1..Len(Fifo.short_queue) : Fifo.short_queue[n].qty > 0

(* Three trades are done, one of them of quantity 0 and one that consumed *)
(* part of the first lot, which is still held                             *)
C32_Witness ==
    /\ Fifo.pc = "for"
    /\ Fifo.k = 3
    /\ \E n \in 2..3 : trade_book[n].quantity = 0 /\ trade_book[n].order_side = "sell"
    /\ trade_book[1].order_side = "buy"
    /\ Len(Fifo.long_queue) = 1
    /\ Fifo.long_queue[1].qty < trade_book[1].quantity

(* C33: once a trade has been processed (and at every point before that), *)
(* the long queue and the short queue of the instrument are not both      *)
(* non-empty: a leftover joins one queue only when the other one has been *)
(* emptied.                                                               *)
C33_OneSideOpen ==
    Fifo.long_queue = <<>> \/ Fifo.short_queue = <<>>

(* A buy was held long, then a larger sell emptied the long queue and left *)
(* its remainder short                                                     *)
C33_Witness ==
    /\ Fifo.pc = "for"
    /\ Fifo.k = 2
    /\ trade_book[1].order_side = "buy"
    /\ trade_book[1].quantity = 1
    /\ trade_book[2].order_side = "sell"
    /\ trade_book[2].quantity = 2
    /\ Fifo.long_queue = <<>>
    /\ Len(Fifo.short_queue) = 1

(* The total quantity of the lots of a queue *)
RECURSIVE held(_)
held(queue) == IF queue = <<>> THEN 0 ELSE Head(queue).qty + held(Tail(queue))

(* C34: FIFO matching conserves quantity: after every processed trade the *)
(* quantity held long minus the quantity held short equals the quantity   *)
(* bought minus the quantity sold so far; the queues and the realized PnL *)
(* are then those the engine computes for the trades processed.           *)
C34_QuantityConserved ==
    Fifo.pc = "for" =>
        /\ held(Fifo.long_queue) - held(Fifo.short_queue)
             = Cumulative(Processed, "buy") - Cumulative(Processed, "sell")
        /\ fifo_match([long_queue |-> <<>>, short_queue |-> <<>>, realized_pnl |-> 0],
                      Processed)
             = [long_queue |-> Fifo.long_queue, short_queue |-> Fifo.short_queue,
                realized_pnl |-> Fifo.realized_pnl]

(* Three trades are done: two buys, then a sell that consumed the first *)
(* lot and part of the second                                           *)
C34_Witness ==
    /\ Fifo.pc = "for"
    /\ Fifo.k = 3
    /\ trade_book[1].order_side = "buy" /\ trade_book[1].quantity = 1
    /\ trade_book[2].order_side = "buy" /\ trade_book[2].quantity = 2
    /\ trade_book[3].order_side = "sell" /\ trade_book[3].quantity = 2
    /\ held(Fifo.long_queue) = 1
    /\ Fifo.short_queue = <<>>

-----------------------------------------------------------------------------
(* Overlapping re-check passes *)

(* C35: when two re-check passes overlap on a `price not matched` order,  *)
(* both having read it before either updated it, the order still has at   *)
(* most one trade-book entry, and exactly one once it is filled and both  *)
(* passes are over.                                                       *)
C35_Claim ==
    \A k \in 1..Len(trade_logs) :
        /\ Cardinality(SameKey(trade_book, trade_logs[k])) <= 1
        /\ (trade_logs[k].status = "filled" /\ \A thread \in Rechecks : ~Running(thread))
             => Cardinality(SameKey(trade_book, trade_logs[k])) = 1

-----------------------------------------------------------------------------
(* Convergence of the stop-loss monitor *)

(* C36: every trigger of a stop-loss cycle strictly decreases the number  *)
(* of trade-book entries that carry a stop-loss: the entry that triggered *)
(* is deleted and the forced sell carries none.                           *)
C36_Claim ==
    \A live_data \in StopLossSnapshots :
        LET r == implement_stop_loss(trade_book, trade_logs, live_data, now + 1)
        IN r.status = "stop loss triggered" =>
             /\ Len(stop_loss_orders(r.book)) < Len(stop_loss_orders(trade_book))
             /\ \A n \in 1..Len(r.book) : r.book[n] # trade_book[r.hit]

-----------------------------------------------------------------------------
(* The trade-book entry of an order filled by the re-check *)

(* C37: every trade-book entry a re-check pass adds belongs to a record   *)
(* that was `price not matched` and keeps that order's instrument, side,  *)
(* requested price, placement timestamp and stop-loss; when the order has *)
(* a stop-loss, the entry is among those the stop-loss monitor fetches.   *)
C37_RecheckKeepsOrderFields ==
    \A live_data \in PendingSnapshots :
        LET r == pending_list_orders(trade_book, trade_logs, live_data, now)
        IN \A n \in (Len(trade_book) + 1)..Len(r.book) :
               LET e == r.book[n]
                   o == trade_logs[e.log_ref]
               IN /\ o.status = "price not matched"
                  /\ e.instrument_id = o.instrument_id
                  /\ e.order_side = o.order_side
                  /\ e.order_price = o.order_price
                  /\ e.order_placement_time = o.order_placement_time
                  /\ e.stop_loss = o.stop_loss
                  /\ o.stop_loss # NONE =>
                        \E m \in 1..Len(stop_loss_orders(r.book)) :
                            stop_loss_orders(r.book)[m] = n

(* A re-check pass has filled an order that carries a stop-loss *)
C37_Witness ==
    /\ last.op = "pending_list"
    /\ last.status = "order(s) filled"
    /\ Newest(trade_book).reason = "none"
    /\ Newest(trade_book).stop_loss # NONE
    /\ trade_logs[Newest(trade_book).log_ref].stop_loss = Newest(trade_book).stop_loss

-----------------------------------------------------------------------------
(* Orders recorded as `not filled` *)

(* The records with status `not filled` *)
Unfilled(logs) == {k \in 1..Len(logs) : logs[k].status = "not filled"}

(* The snapshots over the instruments of the records a re-check pass could *)
(* look up if it took the `not filled` records as well                     *)
RecheckSnapshots ==
    SnapshotsOver({trade_logs[k].instrument_id :
                      k \in {j \in 1..Len(trade_logs) :
                                trade_logs[j].status \in {"price not matched",
                                                          "not filled"}}})

-----------------------------------------------------------------------------
(* The trade-log only grows *)

(* What identifies the order of a trade-log record *)
OrderOf(record) ==
    <<record.instrument_id, record.order_placement_time, record.order_price,
      record.order_side, record.stop_loss>>

(* C39: the trade-log is append/update-only.  Every place-order call adds *)
(* exactly one record to it, whatever its outcome; every step of every    *)
(* operation keeps each record in its place with the same order (only     *)
(* status and execution fields may change) and adds at most one record at *)
(* the end, so the number of records never decreases.                     *)
C39_LogOnlyGrows ==
    /\ [](Admitted =>
            \A i \in Instruments, p \in OrderPrices, side \in Sides, sl \in StopLosses,
               t \in Clock :
                \A live_data \in SnapshotsOver({i}) :
                    OneAdded(trade_logs,
                             place_order_if_price_match(i, p, side, sl, trade_book,
                                                        trade_logs, live_data, t).logs))
    /\ [][/\ Len(trade_logs') \in {Len(trade_logs), Len(trade_logs) + 1}
          /\ \A k \in 1..Len(trade_logs) : OrderOf(trade_logs'[k]) = OrderOf(trade_logs[k])
          /\ last'.op = "place_order" => Len(trade_logs') = Len(trade_logs) + 1]_vars

(* Two orders were placed, one of them filled and then closed by the      *)
(* stop-loss monitor, the other not executed: both records are there     *)
C39_Witness ==
    /\ last.op = "stop_loss"
    /\ last.status = "stop loss triggered"
    /\ Len(trade_logs) = 2
    /\ \E k \in 1..2 : trade_logs[k].status = "stop loss triggered"
    /\ \E k \in 1..2 : trade_logs[k].status \in {"price not matched", "not filled"}

-----------------------------------------------------------------------------
(* A scan goes through the whole trade-book *)

(* C40: a loss-alert scan never raises and evaluates every record of the  *)
(* trade-book: a record that cannot be evaluated (no hash or no numeric   *)
(* price for its instrument, unknown side, order price 0) is skipped, and *)
(* every record after it that qualifies for an alert still gets one.      *)
C40_Claim ==
    \A market_data \in AlertSnapshots :
        LET r == check_trade_losses(trade_book, market_data, threshold_pct, Null,
                                    loss_alerts)
        IN /\ r.status = "ok"
           /\ \A n \in 1..Len(trade_book) :
                  Qualifies(trade_book[n], market_data, {})
                    => ToString(trade_book[n]._id) \in Emitted(loss_alerts, r)

====
